---- MODULE Spec2Model ----
(***************************************************************************)
(* flowero: the MQTT connection state machine of src/src/mqtt_client.py    *)
(* (MQTTClientWrapper) with its reconnect timers, and the ingestion worker *)
(* of src/src/message_queue.py as far as the connection machine drives it. *)
(*                                                                         *)
(* Execution contexts: one caller thread (User) issuing the public API,    *)
(* the protocol client's network loop thread (Net) delivering callbacks,   *)
(* one thread per threading.Timer, and the ingestion worker.  A step of    *)
(* the model is a block of statements of one thread; blocks end where      *)
(* another thread's interleaving is significant (lock acquisition, the     *)
(* library calls, Timer scheduling, thread joins).                         *)
(*                                                                         *)
(* The status observer (on_status_change) is modelled as registered and    *)
(* returning normally: `notified` is what it has been told.                *)
(***************************************************************************)
EXTENDS Integers, Sequences, FiniteSets, TLC

\* ------------------------------------------------------------- bounds
\* Timer objects alive at once; public calls, protocol callbacks and timer
\* expiries in one run; subscribe/unsubscribe calls in one run.
MaxTimers == 3
MaxCalls == 3
MaxEvents == 2
MaxFires == 1
MaxSubs == 2
\* Timer expiries in a run of consecutive failed reconnect attempts.
MaxBackoff == 8

\* MessageQueueManager(max_queue_size, max_history) as the model builds it;
\* messages arriving, clock ticks, hook exceptions, start/stop calls and read
\* operations in one run.
max_queue_size == 2
max_history == 2
MaxMsgs == 3
MaxTicks == 3
MaxRaises == 3
MaxCycles == 3
MaxReads == 1
MaxEdits == 1
MaxClears == 1
MaxTopicLen == 5
\* Threads calling start_processing and stop_processing directly; the
\* longest timeout they give stop_processing, in seconds.
MaxQueueCallers == 2
MaxStopTimeout == 2
MaxBurst == 61
MaxIdle == 60

\* ---------------------------------------------------------- constants
reconnect_delay_base == 1
reconnect_delay_max == 60
rate_calculation_window == 60

DISCONNECTED == "Disconnected"
CONNECTING == "Connecting"
CONNECTED == "Connected"
CONNECTION_FAILED == "Connection Failed"
CONNECTION_LOST == "Connection Lost"
ConnectionStatus ==
    {DISCONNECTED, CONNECTING, CONNECTED, CONNECTION_FAILED, CONNECTION_LOST}

None == "None"

\* Threads: the Timer threads 1..MaxTimers, the caller and the network loop.
TimerIds == 1..MaxTimers
User == MaxTimers + 1
Net == MaxTimers + 2
Threads == TimerIds \cup {User, Net}
NoThread == 0
\* The ingestion worker thread, as a holder of the data lock.
Worker == MaxTimers + 3

\* connect()'s arguments as the callers of the model give them.
Targets ==
    { [host |-> "broker-a", port |-> "1883", username |-> None, password |-> None],
      [host |-> "broker-b", port |-> "8883", username |-> "user", password |-> "secret"] }
NoTarget == [host |-> None, port |-> None, username |-> None, password |-> None]

Topics == {"sensor/a"}
QoS == {0, 1}

\* No message; no timestamp yet (last_message_time = None); no count given
\* (count = None).
NoMessage == [id |-> 0, topic |-> None, timestamp |-> 0]
NoTime == -1
NoCount == -1

\* The topics messages arrive on.
MsgTopics == {"sensor/a", "sensor/b"}

\* What a call into the protocol client library reports.
LibResults == {"OK", "ERR", "EXC"}

FreeTimer == [st |-> "free", interval |-> 0]

\* The threads that call the queue manager's start_processing and
\* stop_processing themselves.
QueueCallers == 1..MaxQueueCallers

\* stop_processing(timeout) as its callers give it.
StopTimeouts == 1..MaxStopTimeout

\* No subscribe_to_topic call yet.
NoRequest == [topic |-> None, qos |-> 0]

VARIABLES
    status, host, port, username, password,
    connection_attempts, reconnect_attempts, last_error,
    connection_lock, auto_reconnect, reconnect_timer,
    subscribed_topics, pending_subscriptions,
    timers,              \* the threading.Timer objects: [st, interval]
    processing_thread,   \* the ingestion worker thread is alive
    shutdown_event,
    sess,                \* the library's session: "none", "awaiting" (CONNECT sent), "open"
    loop_thread,         \* the library's network loop thread is running
    notified,            \* the status observer: last status told, and a tick per call
    pc, tgt, ret, result, flush,
    call,                \* the public operation the caller is in, or was in last
    budget,
    \* MessageQueueManager
    incoming_queue, message_history, topic_stats, total_messages,
    messages_per_second, \* a fraction [num, den]
    last_message_time, rate_history, queue_lock,
    now,                 \* time.time(), in seconds
    delivered,           \* what the message-processed observer was given
    overflow,            \* what the queue-full observer was given
    errors,              \* how often the error observer was called
    wpc, wmsg,           \* the worker's position and the message in its hands
    apc, amsg, aret,     \* add_message: position, message, what it returned
    snap,                \* what the last read operation returned
    connected_calls,     \* on_connected calls for the last acknowledgment
    topic_input,         \* validate_topic: the text entered, one character each
    topic_valid,         \* validate_topic: what it returned
    spc,                 \* start_processing / stop_processing: each caller's position
    join_until,          \* stop_processing: when the caller's join(timeout) gives up
    extra_workers,       \* live worker threads processing_thread no longer refers to
    asked                \* the arguments of the caller's last subscribe_to_topic

vars ==
    <<status, host, port, username, password, connection_attempts,
      reconnect_attempts, last_error, connection_lock, auto_reconnect,
      reconnect_timer, subscribed_topics, pending_subscriptions, timers,
      processing_thread, shutdown_event, sess, loop_thread, notified,
      pc, tgt, ret, result, flush, call, budget,
      incoming_queue, message_history, topic_stats, total_messages,
      messages_per_second, last_message_time, rate_history, queue_lock, now,
      delivered, overflow, errors, wpc, wmsg, apc, amsg, aret, snap,
      connected_calls, topic_input, topic_valid, spc, join_until,
      extra_workers, asked>>

targetVars == <<host, port, username, password>>
subVars == <<subscribed_topics, pending_subscriptions>>
workerVars == <<processing_thread, shutdown_event>>
libVars == <<sess, loop_thread>>
formVars == <<topic_input, topic_valid>>
poolVars == <<spc, join_until, extra_workers>>
statVars ==
    <<topic_stats, total_messages, messages_per_second, last_message_time,
      rate_history>>
producerVars == <<apc, amsg, aret, overflow, errors>>
queueVars ==
    <<incoming_queue, message_history, statVars, queue_lock, now, delivered,
      wpc, wmsg, producerVars, snap>>
\* The wrapper's own state, which the queue manager's methods leave alone.
wrapperVars ==
    <<status, targetVars, connection_attempts, reconnect_attempts, last_error,
      connection_lock, auto_reconnect, reconnect_timer, subVars, timers,
      libVars, notified, pc, tgt, ret, result, flush, call,
      connected_calls, asked>>

\* ------------------------------------------------------------ helpers

\* _set_status without its comparison: every call writes and notifies.
SetStatusAlwaysNotifies(new) ==
    /\ status' = new
    /\ notified' = [last |-> new, tick |-> 1 - notified.tick]

\* _set_status: the write and the observer call, only when the status changes.
SetStatus(new) ==
    IF status # new
    THEN /\ status' = new
         /\ notified' = [last |-> new, tick |-> 1 - notified.tick]
    ELSE UNCHANGED <<status, notified>>

\* Timer.cancel() on the timer `h` refers to, and the handle dropped: a pending
\* timer never runs, a finished one is released, a running one runs on.
Cancelled(ts, h) ==
    IF h = 0 THEN ts
    ELSE [ts EXCEPT ![h] = IF @.st \in {"pending", "done"} THEN FreeTimer ELSE @]

\* _cancel_reconnect_timer
CancelReconnectTimer ==
    /\ timers' = Cancelled(timers, reconnect_timer)
    /\ reconnect_timer' = 0

RECURSIVE Pow2(_)
Pow2(n) == IF n = 0 THEN 1 ELSE 2 * Pow2(n - 1)

Min(a, b) == IF a <= b THEN a ELSE b

\* The backoff delay without its cap.
ReconnectDelayUncapped(attempts) == reconnect_delay_base * Pow2(attempts)

\* The backoff delay of _schedule_reconnect, in seconds.
ReconnectDelay(attempts) ==
    Min(reconnect_delay_base * Pow2(attempts), reconnect_delay_max)

\* connect() refusing only while Connected.
ConnectRefusesWhenConnected == status = CONNECTED

\* connect() refuses the call.
ConnectRefuses == status \in {CONNECTED, CONNECTING}

\* disconnect() finds a session to close.
SessionOpen == status \in {CONNECTED, CONNECTING}

\* A _schedule_reconnect that always returns at its first test.
ReconnectAlwaysSkipped == TRUE

\* _schedule_reconnect returns without scheduling.
ReconnectSkipped == ~auto_reconnect \/ host = None

\* _attempt_reconnect returns without connecting.
AttemptSkipped == status = CONNECTED \/ host = None

\* _attempt_reconnect without its `if not success` branch.
AfterConnectNoRetry(th, ok) == IF th = User THEN "idle" ELSE "t_end"

\* Where a thread goes on when connect() has returned `ok`: the caller is
\* done; _attempt_reconnect schedules another attempt after a failure.
AfterConnect(th, ok) ==
    IF th = User THEN "idle" ELSE IF ok THEN "t_end" ELSE "sched"

\* Where a thread goes on when _schedule_reconnect has returned.
AfterSchedule(th) == IF th = Net THEN "idle" ELSE "t_end"

\* connect() without its call of start_processing.
StartProcessingSkipped == UNCHANGED <<processing_thread, shutdown_event>>

\* MessageQueueManager.start_processing
StartProcessing ==
    IF processing_thread
    THEN UNCHANGED workerVars
    ELSE /\ shutdown_event' = FALSE
         /\ processing_thread' = TRUE

\* dict assignment subscribed_topics[topic] = qos
DictSet(m, k, v) == [x \in DOMAIN m \cup {k} |-> IF x = k THEN v ELSE m[x]]
\* subscribed_topics.pop(topic, None)
DictPop(m, k) == [x \in DOMAIN m \ {k} |-> m[x]]
\* list.remove(topic): the first occurrence
RECURSIVE ListRemove(_, _)
ListRemove(s, x) ==
    IF s = <<>> THEN <<>>
    ELSE IF Head(s) = x THEN Tail(s)
    ELSE <<Head(s)>> \o ListRemove(Tail(s), x)
InList(s, x) == \E i \in 1..Len(s) : s[i] = x

\* queue_subscription(topic): [ok, pending]
QueueSubscription(topic) ==
    IF ~InList(pending_subscriptions, topic)
    THEN [ok |-> TRUE, pending |-> Append(pending_subscriptions, topic),
          subscribed |-> subscribed_topics]
    ELSE [ok |-> FALSE, pending |-> pending_subscriptions,
          subscribed |-> subscribed_topics]

\* subscribe_to_topic falling back to the pending list when the library
\* refuses the request.
SubscribeToTopicQueuesOnFailure(topic, qos, r) ==
    IF status = CONNECTED /\ r = "OK"
    THEN [ok |-> TRUE, pending |-> pending_subscriptions,
          subscribed |-> DictSet(subscribed_topics, topic, qos)]
    ELSE QueueSubscription(topic)

\* subscribe_to_topic(topic, qos) when the library answers r:
\* what it returns and the registry it leaves.
SubscribeToTopic(topic, qos, r) ==
    IF status # CONNECTED
    THEN QueueSubscription(topic)
    ELSE IF r = "OK"
         THEN [ok |-> TRUE, pending |-> pending_subscriptions,
               subscribed |-> DictSet(subscribed_topics, topic, qos)]
         ELSE [ok |-> FALSE, pending |-> pending_subscriptions,
               subscribed |-> subscribed_topics]

\* unsubscribe_from_topic dropping the entry before it looks at the status
\* and at the library's answer.
UnsubscribeFromTopicAlways(topic, r) ==
    [ok |-> status = CONNECTED /\ r = "OK",
     subscribed |-> DictPop(subscribed_topics, topic)]

\* unsubscribe_from_topic dropping the entry whatever the library answers.
UnsubscribeFromTopicOnRefusal(topic, r) ==
    IF status # CONNECTED
    THEN [ok |-> FALSE, subscribed |-> subscribed_topics]
    ELSE [ok |-> r = "OK", subscribed |-> DictPop(subscribed_topics, topic)]

\* unsubscribe_from_topic(topic) when the library answers r.
UnsubscribeFromTopic(topic, r) ==
    IF status # CONNECTED
    THEN [ok |-> FALSE, subscribed |-> subscribed_topics]
    ELSE IF r = "OK"
         THEN [ok |-> TRUE, subscribed |-> DictPop(subscribed_topics, topic)]
         ELSE [ok |-> FALSE, subscribed |-> subscribed_topics]

Bool(b) == IF b THEN "True" ELSE "False"

\* A float that is a quotient of two whole numbers; 0.0.
Frac(n, d) == [num |-> n, den |-> d]
Zero == Frac(0, 1)

Max(a, b) == IF a >= b THEN a ELSE b

\* A deque without maxlen: append never evicts.
DequeAppendUnbounded(d, x, n) == Append(d, x)

\* A bounded container that refuses the new entry when it is full.
DequeAppendDropsNewest(d, x, n) == IF Len(d) < n THEN Append(d, x) ELSE d

\* deque(maxlen = n).append(x): the oldest entry leaves when the deque is full.
DequeAppend(d, x, n) ==
    IF Len(d) < n THEN Append(d, x) ELSE Append(Tail(d), x)

\* A per-topic count that is set to 1 instead of raised by 1.
CountTopicOnce(stats, topic) == DictSet(stats, topic, 1)

\* topic_stats[topic] += 1, the entry created at 0 first.
CountTopic(stats, topic) ==
    DictSet(stats, topic, IF topic \in DOMAIN stats THEN stats[topic] + 1 ELSE 1)

\* The loop of _update_message_rate: entries older than the window leave at
\* the front.
RECURSIVE DropOlder(_, _)
DropOlder(h, cutoff) ==
    IF h # <<>> /\ Head(h) < cutoff THEN DropOlder(Tail(h), cutoff) ELSE h

\* _update_message_rate at time t on the window h: the samples divided by the
\* time from the oldest sample to t.
MessageRate(h, t) ==
    IF Len(h) > 1 /\ t - Head(h) > 0 THEN Frac(Len(h), t - Head(h)) ELSE Zero

\* list(self.message_history)[-count:], and the whole list without a count.
RecentSlice(h, count) ==
    IF count = NoCount \/ count = 0 THEN h
    ELSE SubSeq(h, Max(1, Len(h) - count + 1), Len(h))

\* round(messages_per_second, 2), in hundredths.
Round2(f) == (200 * f.num + f.den) \div (2 * f.den)

\* The data a read operation hands out: a copy of its own.
Copied(v) == [ref |-> FALSE, val |-> v]

\* Nothing read yet.
NoSnap == [op |-> "none", count |-> NoCount, data |-> Copied(<<>>)]

\* Readers and worker that do not take the data lock.
DataLockIgnored == TRUE

\* The readers and the worker's per-message update exclude each other:
\* `with self.queue_lock`.
DataLockFree == queue_lock = NoThread

\* ------------------------------------------------------- validate_topic
\* The characters a topic is typed from: a letter, the two wildcards, the
\* level separator, a blank and, for the four characters validate_topic
\* rejects, the tab.
TopicChars == {"a", "+", "#", "/", " ", "\t"}
invalid_chars == {"\t"}
Whitespace == {" ", "\t"}

\* Every text of at most n characters.
RECURSIVE Texts(_)
Texts(n) ==
    IF n = 0 THEN {<<>>}
    ELSE LET shorter == Texts(n - 1)
         IN shorter \cup {Append(t, c) : t \in shorter, c \in TopicChars}

\* c in topic
Contains(t, c) == \E i \in 1..Len(t) : t[i] = c

\* topic.strip(): leading and trailing whitespace removed.
RECURSIVE StripLeft(_)
StripLeft(t) ==
    IF t # <<>> /\ Head(t) \in Whitespace THEN StripLeft(Tail(t)) ELSE t
RECURSIVE StripRight(_)
StripRight(t) ==
    IF t # <<>> /\ t[Len(t)] \in Whitespace
    THEN StripRight(SubSeq(t, 1, Len(t) - 1)) ELSE t
Strip(t) == StripRight(StripLeft(t))

\* topic.split('/'): the levels, empty ones included.
RECURSIVE Split(_, _)
Split(t, cur) ==
    IF t = <<>> THEN <<cur>>
    ELSE IF Head(t) = "/" THEN <<cur>> \o Split(Tail(t), <<>>)
    ELSE Split(Tail(t), Append(cur, Head(t)))

\* validate_topic
ValidateTopic(t) ==
    /\ ~(t = <<>> \/ Strip(t) = <<>>)
    /\ \A c \in invalid_chars : ~Contains(t, c)
    /\ \A i \in 1..Len(Split(t, <<>>)) :
         LET part == Split(t, <<>>)[i]
         IN /\ ~(Contains(part, "+") /\ part # <<"+">>)
            /\ ~(Contains(part, "#") /\ part # <<"#">>)
    /\ ~(Contains(t, "#") /\ t[Len(t)] # "#")

\* ---------------------------------------------------------------- Init
\* The wrapper as __init__ leaves it; b is what the run may still do, t the
\* text in the topic field of the form.
StartWith(b, t) ==
    /\ status = DISCONNECTED
    /\ host = None /\ port = None /\ username = None /\ password = None
    /\ connection_attempts = 0
    /\ reconnect_attempts = 0
    /\ last_error = None
    /\ connection_lock = NoThread
    /\ auto_reconnect = TRUE
    /\ reconnect_timer = 0
    /\ subscribed_topics = <<>>
    /\ pending_subscriptions = <<>>
    /\ timers = [i \in TimerIds |-> FreeTimer]
    /\ processing_thread = FALSE
    /\ shutdown_event = FALSE
    /\ sess = "none"
    /\ loop_thread = FALSE
    /\ notified = [last |-> None, tick |-> 0]
    /\ pc = [th \in Threads |-> IF th \in TimerIds THEN "off" ELSE "idle"]
    /\ tgt = [th \in TimerIds \cup {User} |-> NoTarget]
    /\ ret = [th \in Threads |-> "none"]
    /\ result = [th \in Threads |-> "none"]
    /\ flush = <<>>
    /\ call = "none"
    /\ budget = b
    /\ incoming_queue = <<>>
    /\ message_history = <<>>
    /\ topic_stats = <<>>
    /\ total_messages = 0
    /\ messages_per_second = Zero
    /\ last_message_time = NoTime
    /\ rate_history = <<>>
    /\ queue_lock = NoThread
    /\ now = 0
    /\ delivered = <<>>
    /\ overflow = <<>>
    /\ errors = 0
    /\ wpc = "wait"
    /\ wmsg = NoMessage
    /\ apc = "idle"
    /\ amsg = NoMessage
    /\ aret = "none"
    /\ snap = NoSnap
    /\ connected_calls = 0
    /\ topic_input = t
    /\ topic_valid = "none"
    /\ spc = [c \in QueueCallers |-> "idle"]
    /\ join_until = [c \in QueueCallers |-> NoTime]
    /\ extra_workers = 0
    /\ asked = NoRequest

\* The same with an empty topic field.
Start(b) == StartWith(b, <<>>)

\* The last n elements of a sequence.
LastN(h, n) == SubSeq(h, Max(1, Len(h) - n + 1), Len(h))

\* The topic of the messages of a burst.
BurstTopic == "sensor/a"

\* k messages that arrived at time 0, oldest first; the messages that arrive
\* later are numbered from 1.
Burst(k) == [i \in 1..k |-> [id |-> i - k, topic |-> BurstTopic, timestamp |-> 0]]

\* The queue manager after start_processing(), a burst of k messages that
\* arrived and were handled at time 0, and idle seconds without a message.
StartBusy(b, k, idle) ==
    /\ status = DISCONNECTED
    /\ host = None /\ port = None /\ username = None /\ password = None
    /\ connection_attempts = 0
    /\ reconnect_attempts = 0
    /\ last_error = None
    /\ connection_lock = NoThread
    /\ auto_reconnect = TRUE
    /\ reconnect_timer = 0
    /\ subscribed_topics = <<>>
    /\ pending_subscriptions = <<>>
    /\ timers = [i \in TimerIds |-> FreeTimer]
    /\ processing_thread = TRUE
    /\ shutdown_event = FALSE
    /\ sess = "none"
    /\ loop_thread = FALSE
    /\ notified = [last |-> None, tick |-> 0]
    /\ pc = [th \in Threads |-> IF th \in TimerIds THEN "off" ELSE "idle"]
    /\ tgt = [th \in TimerIds \cup {User} |-> NoTarget]
    /\ ret = [th \in Threads |-> "none"]
    /\ result = [th \in Threads |-> "none"]
    /\ flush = <<>>
    /\ call = "none"
    /\ budget = b
    /\ incoming_queue = <<>>
    /\ message_history = LastN(Burst(k), max_history)
    /\ topic_stats = (IF k = 0 THEN <<>> ELSE BurstTopic :> k)
    /\ total_messages = k
    /\ messages_per_second = Zero
    /\ last_message_time = (IF k = 0 THEN NoTime ELSE 0)
    /\ rate_history = LastN([i \in 1..k |-> 0], rate_calculation_window)
    /\ queue_lock = NoThread
    /\ now = idle
    /\ delivered = Burst(k)
    /\ overflow = <<>>
    /\ errors = 0
    /\ wpc = "wait"
    /\ wmsg = NoMessage
    /\ apc = "idle"
    /\ amsg = NoMessage
    /\ aret = "none"
    /\ snap = NoSnap
    /\ connected_calls = 0
    /\ topic_input = <<>>
    /\ topic_valid = "none"
    /\ spc = [c \in QueueCallers |-> "idle"]
    /\ join_until = [c \in QueueCallers |-> NoTime]
    /\ extra_workers = 0
    /\ asked = NoRequest

Init ==
    Start([calls |-> MaxCalls, events |-> MaxEvents, fires |-> MaxFires,
           subs |-> 0])

InitSub ==
    Start([calls |-> MaxCalls, events |-> MaxEvents, fires |-> 0,
           subs |-> MaxSubs])

\* One connect() by the caller, then the reconnect timers on their own.
InitBackoff ==
    Start([calls |-> 1, events |-> MaxEvents, fires |-> MaxBackoff, subs |-> 0])

\* The queue manager on its own: no connection is made.
InitQueue ==
    Start([calls |-> 0, events |-> 0, fires |-> 0, subs |-> 0,
           msgs |-> MaxMsgs, ticks |-> 0, raises |-> 0, cycles |-> MaxCycles,
           reads |-> MaxReads])

\* The queue manager with observers that may raise; nothing is read.
InitHooks ==
    Start([calls |-> 0, events |-> 0, fires |-> 0, subs |-> 0,
           msgs |-> MaxMsgs, ticks |-> 0, raises |-> MaxRaises,
           cycles |-> MaxCycles, reads |-> 0])

\* The queue manager with a moving clock; the worker is started once.
InitRate ==
    Start([calls |-> 0, events |-> 0, fires |-> 0, subs |-> 0,
           msgs |-> MaxMsgs, ticks |-> MaxTicks, raises |-> 0, cycles |-> 1,
           reads |-> 0])

\* One connect(), one acknowledgment, one subscription, messages and reads.
InitRead ==
    Start([calls |-> 1, events |-> 1, fires |-> 0, subs |-> 1,
           msgs |-> MaxMsgs, ticks |-> 0, raises |-> 0, cycles |-> 0,
           reads |-> MaxReads, edits |-> MaxEdits])

\* The queue manager after a burst that fills the rate window or nearly, and
\* a clock that has moved to the end of the window since.
InitWindow ==
    \E k \in {0, MaxBurst - 2, MaxBurst - 1, MaxBurst},
       idle \in {0, MaxIdle - 1, MaxIdle} :
        StartBusy([calls |-> 0, events |-> 0, fires |-> 0, subs |-> 0,
                   msgs |-> MaxMsgs, ticks |-> MaxTicks, raises |-> 0,
                   cycles |-> 0, reads |-> 0], k, idle)

\* The queue manager with one clear_history and one clear_statistics.
InitClear ==
    Start([calls |-> 0, events |-> 0, fires |-> 0, subs |-> 0,
           msgs |-> MaxMsgs, ticks |-> 0, raises |-> 0, cycles |-> 1,
           reads |-> MaxReads, hclears |-> MaxClears, sclears |-> MaxClears])

\* The form with any topic typed in; nothing else happens.
InitTopic ==
    \E t \in Texts(MaxTopicLen) :
        StartWith([calls |-> 0, events |-> 0, fires |-> 0, subs |-> 0], t)

\* Failure signals only: no acknowledgment is accepted, no session drops.
InitRefuse ==
    Start([calls |-> MaxCalls, events |-> MaxEvents, fires |-> MaxFires,
           subs |-> 0])

\* The queue manager started and stopped by one thread while messages arrive
\* and the clock moves.
InitStop ==
    Start([calls |-> 0, events |-> 0, fires |-> 0, subs |-> 0,
           msgs |-> MaxMsgs, ticks |-> MaxStopTimeout, raises |-> 0,
           cycles |-> MaxCycles, reads |-> 0])

\* The queue manager started and stopped by several threads; no message
\* arrives.
InitStart ==
    Start([calls |-> 0, events |-> 0, fires |-> 0, subs |-> 0,
           msgs |-> 0, ticks |-> MaxStopTimeout, raises |-> 0,
           cycles |-> MaxCycles, reads |-> 0])

\* ------------------------------------------------------------- connect
\* connect(), from the lock to the library call: refused while Connecting or
\* Connected, else the target recorded and the status Connecting.
Connect1(th, t) ==
    /\ connection_lock = NoThread
    /\ IF ConnectRefuses
       THEN /\ ret' = [ret EXCEPT ![th] = "False"]
            /\ pc' = [pc EXCEPT ![th] = AfterConnect(th, FALSE)]
            /\ UNCHANGED <<status, notified, targetVars, connection_attempts,
                           connection_lock>>
       ELSE /\ host' = t.host
            /\ port' = t.port
            /\ username' = t.username
            /\ password' = t.password
            /\ SetStatus(CONNECTING)
            /\ connection_attempts' = connection_attempts + 1
            /\ connection_lock' = th
            /\ ret' = [ret EXCEPT ![th] = "none"]
            /\ pc' = [pc EXCEPT ![th] = "connect_lib"]
    /\ result' = [result EXCEPT ![th] = "none"]
    /\ UNCHANGED <<reconnect_attempts, last_error, auto_reconnect,
                   reconnect_timer, subVars, timers, workerVars, libVars, flush>>

\* result = self.client.connect(...): accepted, an error code, or an exception.
ConnectLib(th) ==
    /\ pc[th] = "connect_lib"
    /\ \E r \in LibResults :
         /\ result' = [result EXCEPT ![th] = r]
         /\ IF r = "OK"
            THEN /\ sess' = "awaiting"
                 /\ pc' = [pc EXCEPT ![th] = "connect_start"]
                 /\ UNCHANGED <<status, notified, last_error, connection_lock, ret>>
            ELSE /\ sess' = "none"
                 /\ last_error' =
                        IF r = "ERR" THEN "Connection failed" ELSE "Connection error"
                 /\ SetStatus(CONNECTION_FAILED)
                 /\ connection_lock' = NoThread
                 /\ ret' = [ret EXCEPT ![th] = "False"]
                 /\ pc' = [pc EXCEPT ![th] = AfterConnect(th, FALSE)]
    /\ UNCHANGED <<targetVars, connection_attempts, reconnect_attempts,
                   auto_reconnect, reconnect_timer, subVars, timers, workerVars,
                   loop_thread, tgt, flush, budget>>
    /\ UNCHANGED call
    /\ UNCHANGED <<queueVars, formVars, poolVars, connected_calls, asked>>

\* loop_start(), start_processing(), return True.
ConnectStart(th) ==
    /\ pc[th] = "connect_start"
    /\ loop_thread' = TRUE
    /\ StartProcessing
    /\ connection_lock' = NoThread
    /\ ret' = [ret EXCEPT ![th] = "True"]
    /\ pc' = [pc EXCEPT ![th] = AfterConnect(th, TRUE)]
    /\ UNCHANGED <<status, notified, targetVars, connection_attempts,
                   reconnect_attempts, last_error, auto_reconnect,
                   reconnect_timer, subVars, timers, sess, tgt, result, flush,
                   budget>>
    /\ UNCHANGED call
    /\ UNCHANGED <<queueVars, formVars, poolVars, connected_calls, asked>>

\* The caller calls connect(host, port, username, password).
UserConnect ==
    /\ pc[User] = "idle"
    /\ budget.calls > 0
    /\ \E t \in Targets : tgt' = [tgt EXCEPT ![User] = t]
    /\ call' = "connect"
    /\ pc' = [pc EXCEPT ![User] = "connect"]
    /\ ret' = [ret EXCEPT ![User] = "none"]
    /\ result' = [result EXCEPT ![User] = "none"]
    /\ budget' = [budget EXCEPT !.calls = @ - 1]
    /\ UNCHANGED <<status, notified, targetVars, connection_attempts,
                   reconnect_attempts, last_error, connection_lock,
                   auto_reconnect, reconnect_timer, subVars, timers, workerVars,
                   libVars, flush>>
    /\ UNCHANGED <<queueVars, formVars, poolVars, connected_calls, asked>>

ConnectEnter(th) ==
    /\ pc[th] = "connect"
    /\ Connect1(th, tgt[th])
    /\ UNCHANGED <<tgt, call, budget>>
    /\ UNCHANGED <<queueVars, formVars, poolVars, connected_calls, asked>>

\* ---------------------------------------------------------- disconnect
\* disconnect(), from the lock to stop_processing's join: the reconnect timer
\* cancelled, the branch taken, the worker told to stop when it is alive.
UserDisconnect ==
    /\ pc[User] = "idle"
    /\ budget.calls > 0
    /\ connection_lock = NoThread
    /\ connection_lock' = User
    /\ CancelReconnectTimer
    /\ IF processing_thread
       THEN /\ shutdown_event' = TRUE
            /\ pc' = [pc EXCEPT ![User] =
                        IF SessionOpen THEN "disc_join_open" ELSE "disc_join_idle"]
       ELSE /\ UNCHANGED shutdown_event
            /\ pc' = [pc EXCEPT ![User] =
                        IF SessionOpen THEN "disc_close" ELSE "disc_finish"]
    /\ ret' = [ret EXCEPT ![User] = "none"]
    /\ result' = [result EXCEPT ![User] = "none"]
    /\ budget' = [budget EXCEPT !.calls = @ - 1]
    /\ UNCHANGED <<status, notified, targetVars, connection_attempts,
                   reconnect_attempts, last_error, auto_reconnect, subVars,
                   processing_thread, libVars, tgt, flush>>
    /\ call' = "disconnect"
    /\ UNCHANGED <<queueVars, formVars, poolVars, connected_calls, asked>>

\* processing_thread.join(timeout) returns: the worker has exited, or the
\* timeout has passed and it has not.
DisconnectJoin ==
    /\ pc[User] \in {"disc_join_open", "disc_join_idle"}
    /\ pc' = [pc EXCEPT ![User] =
                IF pc[User] = "disc_join_open" THEN "disc_close" ELSE "disc_finish"]
    /\ UNCHANGED <<status, notified, targetVars, connection_attempts,
                   reconnect_attempts, last_error, connection_lock,
                   auto_reconnect, reconnect_timer, subVars, timers, workerVars,
                   libVars, tgt, ret, result, flush, budget>>
    /\ UNCHANGED call
    /\ UNCHANGED <<queueVars, formVars, poolVars, connected_calls, asked>>

\* loop_stop() (joins the network thread), result = self.client.disconnect().
\* An accepted DISCONNECT may run _on_disconnect(rc = 0) in the calling
\* thread (cb); on an error code or an exception the status is left as it is.
DisconnectClose ==
    /\ pc[User] = "disc_close"
    /\ pc[Net] = "idle"
    /\ loop_thread' = FALSE
    /\ \E r \in LibResults, cb \in BOOLEAN :
         /\ result' = [result EXCEPT ![User] = r]
         /\ IF r = "OK"
            THEN /\ sess' = "none"
                 /\ SetStatus(DISCONNECTED)
                 /\ IF cb THEN CancelReconnectTimer
                          ELSE UNCHANGED <<timers, reconnect_timer>>
                 /\ ret' = [ret EXCEPT ![User] = "True"]
            ELSE /\ cb = FALSE
                 /\ ret' = [ret EXCEPT ![User] = "False"]
                 /\ UNCHANGED <<sess, status, notified, timers, reconnect_timer>>
    /\ connection_lock' = NoThread
    /\ pc' = [pc EXCEPT ![User] = "idle"]
    /\ UNCHANGED <<targetVars, connection_attempts, reconnect_attempts,
                   last_error, auto_reconnect, subVars, workerVars, tgt, flush,
                   budget>>
    /\ UNCHANGED call
    /\ UNCHANGED <<queueVars, formVars, poolVars, connected_calls, asked>>

\* The branch without a session: _set_status(DISCONNECTED), return True.
DisconnectFinish ==
    /\ pc[User] = "disc_finish"
    /\ SetStatus(DISCONNECTED)
    /\ connection_lock' = NoThread
    /\ ret' = [ret EXCEPT ![User] = "True"]
    /\ pc' = [pc EXCEPT ![User] = "idle"]
    /\ UNCHANGED <<targetVars, connection_attempts, reconnect_attempts,
                   last_error, auto_reconnect, reconnect_timer, subVars, timers,
                   workerVars, libVars, tgt, result, flush, budget>>
    /\ UNCHANGED call
    /\ UNCHANGED <<queueVars, formVars, poolVars, connected_calls, asked>>

\* -------------------------------------------------- reconnect scheduling
\* _schedule_reconnect, first half: skipped when auto-reconnect is off or no
\* host is recorded, else the existing timer cancelled.
Schedule1(th) ==
    /\ pc[th] = "sched"
    /\ IF ReconnectSkipped
       THEN /\ pc' = [pc EXCEPT ![th] = AfterSchedule(th)]
            /\ UNCHANGED <<timers, reconnect_timer>>
       ELSE /\ CancelReconnectTimer
            /\ pc' = [pc EXCEPT ![th] = "sched_timer"]
    /\ UNCHANGED <<status, notified, targetVars, connection_attempts,
                   reconnect_attempts, last_error, connection_lock,
                   auto_reconnect, subVars, workerVars, libVars, tgt, ret,
                   result, flush, budget>>
    /\ UNCHANGED call
    /\ UNCHANGED <<queueVars, formVars, poolVars, connected_calls, asked>>

\* A Timer object the model may use for threading.Timer(...): the least free one.
NewTimer == CHOOSE i \in TimerIds :
    /\ timers[i].st = "free"
    /\ \A j \in TimerIds : timers[j].st = "free" => i <= j

\* _schedule_reconnect, second half: the delay computed, the attempt counted,
\* the new Timer stored in reconnect_timer and started.  A finished Timer
\* that the overwritten handle still referred to is released.
Schedule2(th) ==
    /\ pc[th] = "sched_timer"
    /\ \E i \in TimerIds : timers[i].st = "free"
    /\ LET old == reconnect_timer
           kept == IF old # 0 /\ timers[old].st = "done"
                   THEN [timers EXCEPT ![old] = FreeTimer] ELSE timers
       IN timers' = [kept EXCEPT ![NewTimer] =
                        [st |-> "pending",
                         interval |-> ReconnectDelay(reconnect_attempts)]]
    /\ reconnect_timer' = NewTimer
    /\ reconnect_attempts' = reconnect_attempts + 1
    /\ pc' = [pc EXCEPT ![th] = AfterSchedule(th)]
    /\ UNCHANGED <<status, notified, targetVars, connection_attempts,
                   last_error, connection_lock, auto_reconnect, subVars,
                   workerVars, libVars, tgt, ret, result, flush, budget>>
    /\ UNCHANGED call
    /\ UNCHANGED <<queueVars, formVars, poolVars, connected_calls, asked>>

\* The Timer's delay has passed: its thread starts _attempt_reconnect.
TimerFire(i) ==
    /\ timers[i].st = "pending"
    /\ budget.fires > 0
    /\ timers' = [timers EXCEPT ![i].st = "running"]
    /\ pc' = [pc EXCEPT ![i] = "attempt"]
    /\ budget' = [budget EXCEPT !.fires = @ - 1]
    /\ UNCHANGED <<status, notified, targetVars, connection_attempts,
                   reconnect_attempts, last_error, connection_lock,
                   auto_reconnect, reconnect_timer, subVars, workerVars,
                   libVars, tgt, ret, result, flush>>
    /\ UNCHANGED call
    /\ UNCHANGED <<queueVars, formVars, poolVars, connected_calls, asked>>

\* _attempt_reconnect up to its call of connect(self.host, self.port, ...).
Attempt(i) ==
    /\ pc[i] = "attempt"
    /\ IF AttemptSkipped
       THEN /\ pc' = [pc EXCEPT ![i] = "t_end"]
            /\ UNCHANGED tgt
       ELSE /\ tgt' = [tgt EXCEPT ![i] =
                        [host |-> host, port |-> port, username |-> username,
                         password |-> password]]
            /\ pc' = [pc EXCEPT ![i] = "connect"]
    /\ UNCHANGED <<status, notified, targetVars, connection_attempts,
                   reconnect_attempts, last_error, connection_lock,
                   auto_reconnect, reconnect_timer, subVars, timers, workerVars,
                   libVars, ret, result, flush, budget>>
    /\ UNCHANGED call
    /\ UNCHANGED <<queueVars, formVars, poolVars, connected_calls, asked>>

\* The Timer's thread ends; the object lives on while reconnect_timer refers to it.
TimerEnd(i) ==
    /\ pc[i] = "t_end"
    /\ pc' = [pc EXCEPT ![i] = "off"]
    /\ timers' = [timers EXCEPT ![i] =
                    IF reconnect_timer = i THEN [@ EXCEPT !.st = "done"]
                    ELSE FreeTimer]
    /\ tgt' = [tgt EXCEPT ![i] = NoTarget]
    /\ ret' = [ret EXCEPT ![i] = "none"]
    /\ result' = [result EXCEPT ![i] = "none"]
    /\ UNCHANGED <<status, notified, targetVars, connection_attempts,
                   reconnect_attempts, last_error, connection_lock,
                   auto_reconnect, reconnect_timer, subVars, workerVars,
                   libVars, flush, budget>>
    /\ UNCHANGED call
    /\ UNCHANGED <<queueVars, formVars, poolVars, connected_calls, asked>>

\* ---------------------------------------- the protocol client's callbacks
\* The network loop thread delivers one callback at a time, while it runs.
NetReady ==
    /\ loop_thread
    /\ pc[Net] = "idle"
    /\ budget.events > 0

\* _on_connect(rc = 0) up to the pending subscriptions: CONNACK accepted.
OnConnectAccepted ==
    /\ NetReady
    /\ sess = "awaiting"
    /\ sess' = "open"
    /\ SetStatus(CONNECTED)
    /\ connection_attempts' = 0
    /\ reconnect_attempts' = 0
    /\ last_error' = None
    /\ CancelReconnectTimer
    /\ flush' = pending_subscriptions
    /\ pc' = [pc EXCEPT ![Net] =
                IF pending_subscriptions = <<>> THEN "idle" ELSE "flush"]
    /\ budget' = [budget EXCEPT !.events = @ - 1]
    /\ UNCHANGED <<targetVars, connection_lock, auto_reconnect, subVars,
                   workerVars, loop_thread, tgt, ret, result>>
    /\ UNCHANGED call
    /\ UNCHANGED <<queueVars, formVars, poolVars, asked>>
    /\ connected_calls' = IF pending_subscriptions = <<>> THEN 1 ELSE 0

\* A flush that subscribes with the QoS of the caller's last request.
FlushQoSAsRequested(topic) == asked.qos

\* The QoS the flush subscribes a pending topic with: subscribe_to_topic(topic)
\* is called without one, and the pending list holds none.
FlushQoS(topic) == 0

\* One turn of `for topic in self.pending_subscriptions[:]`:
\* subscribe_to_topic(topic) with the default QoS, removed from the pending
\* list when it returns True.
OnConnectFlush ==
    /\ pc[Net] = "flush"
    /\ \E r \in LibResults :
         LET topic == Head(flush)
             res == SubscribeToTopic(topic, FlushQoS(topic), r)
         IN /\ subscribed_topics' = res.subscribed
            /\ pending_subscriptions' =
                  IF res.ok THEN ListRemove(res.pending, topic) ELSE res.pending
    /\ flush' = Tail(flush)
    /\ pc' = [pc EXCEPT ![Net] = IF Tail(flush) = <<>> THEN "idle" ELSE "flush"]
    /\ UNCHANGED <<status, notified, targetVars, connection_attempts,
                   reconnect_attempts, last_error, connection_lock,
                   auto_reconnect, reconnect_timer, timers, workerVars,
                   libVars, tgt, ret, result, budget>>
    /\ UNCHANGED call
    /\ UNCHANGED <<queueVars, formVars, poolVars, asked>>
    /\ connected_calls' = IF Tail(flush) = <<>> THEN connected_calls + 1
                         ELSE connected_calls

\* _on_connect(rc # 0) up to _schedule_reconnect: CONNACK refused.
OnConnectRefused ==
    /\ NetReady
    /\ sess = "awaiting"
    /\ sess' = "none"
    /\ last_error' = "Connection failed with code"
    /\ SetStatus(CONNECTION_FAILED)
    /\ pc' = [pc EXCEPT ![Net] = "sched"]
    /\ budget' = [budget EXCEPT !.events = @ - 1]
    /\ UNCHANGED <<targetVars, connection_attempts, reconnect_attempts,
                   connection_lock, auto_reconnect, reconnect_timer, subVars,
                   timers, workerVars, loop_thread, tgt, ret, result, flush>>
    /\ UNCHANGED call
    /\ UNCHANGED <<queueVars, formVars, poolVars, connected_calls, asked>>

\* _on_disconnect(rc # 0) up to _schedule_reconnect: the session dropped.
OnDisconnectUnexpected ==
    /\ NetReady
    /\ sess \in {"awaiting", "open"}
    /\ sess' = "none"
    /\ SetStatus(CONNECTION_LOST)
    /\ pc' = [pc EXCEPT ![Net] = "sched"]
    /\ budget' = [budget EXCEPT !.events = @ - 1]
    /\ UNCHANGED <<targetVars, connection_attempts, reconnect_attempts,
                   last_error, connection_lock, auto_reconnect, reconnect_timer,
                   subVars, timers, workerVars, loop_thread, tgt, ret, result,
                   flush>>
    /\ UNCHANGED call
    /\ UNCHANGED <<queueVars, formVars, poolVars, connected_calls, asked>>

\* The library's loop thread reconnects a dropped session by itself and sends
\* CONNECT again; no callback runs.
LoopReconnect ==
    /\ loop_thread
    /\ pc[Net] = "idle"
    /\ sess = "none"
    /\ sess' = "awaiting"
    /\ UNCHANGED <<budget, status, notified, targetVars, connection_attempts,
                   reconnect_attempts, last_error, connection_lock,
                   auto_reconnect, reconnect_timer, subVars, timers, workerVars,
                   loop_thread, pc, tgt, ret, result, flush>>
    /\ UNCHANGED call
    /\ UNCHANGED <<queueVars, formVars, poolVars, connected_calls, asked>>

\* _on_connect_fail up to _schedule_reconnect: the loop thread's own
\* reconnect could not reach the broker.
OnConnectFail ==
    /\ NetReady
    /\ sess = "none"
    /\ last_error' = "Failed to establish connection to MQTT broker"
    /\ SetStatus(CONNECTION_FAILED)
    /\ pc' = [pc EXCEPT ![Net] = "sched"]
    /\ budget' = [budget EXCEPT !.events = @ - 1]
    /\ UNCHANGED <<targetVars, connection_attempts, reconnect_attempts,
                   connection_lock, auto_reconnect, reconnect_timer, subVars,
                   timers, workerVars, libVars, tgt, ret, result, flush>>
    /\ UNCHANGED call
    /\ UNCHANGED <<queueVars, formVars, poolVars, connected_calls, asked>>

\* ------------------------------------------------ the other public calls
UserSubscribe ==
    /\ pc[User] = "idle"
    /\ budget.subs > 0
    /\ \E topic \in Topics, qos \in QoS, r \in LibResults :
         LET res == SubscribeToTopic(topic, qos, r)
         IN /\ subscribed_topics' = res.subscribed
            /\ pending_subscriptions' = res.pending
            /\ ret' = [ret EXCEPT ![User] = Bool(res.ok)]
            /\ result' = [result EXCEPT ![User] =
                            IF status = CONNECTED THEN r ELSE "none"]
            /\ asked' = [topic |-> topic, qos |-> qos]
    /\ budget' = [budget EXCEPT !.subs = @ - 1]
    /\ UNCHANGED <<status, notified, targetVars, connection_attempts,
                   reconnect_attempts, last_error, connection_lock,
                   auto_reconnect, reconnect_timer, timers, workerVars,
                   libVars, pc, tgt, flush>>
    /\ call' = "subscribe"
    /\ UNCHANGED <<queueVars, formVars, poolVars, connected_calls>>

UserUnsubscribe ==
    /\ pc[User] = "idle"
    /\ budget.subs > 0
    /\ \E topic \in Topics, r \in LibResults :
         LET res == UnsubscribeFromTopic(topic, r)
         IN /\ subscribed_topics' = res.subscribed
            /\ ret' = [ret EXCEPT ![User] = Bool(res.ok)]
            /\ result' = [result EXCEPT ![User] =
                            IF status = CONNECTED THEN r ELSE "none"]
    /\ budget' = [budget EXCEPT !.subs = @ - 1]
    /\ UNCHANGED <<status, notified, targetVars, connection_attempts,
                   reconnect_attempts, last_error, connection_lock,
                   auto_reconnect, reconnect_timer, pending_subscriptions,
                   timers, workerVars, libVars, pc, tgt, flush>>
    /\ call' = "unsubscribe"
    /\ UNCHANGED <<queueVars, formVars, poolVars, connected_calls, asked>>

\* set_auto_reconnect(enabled)
UserSetAutoReconnect ==
    /\ pc[User] = "idle"
    /\ budget.calls > 0
    /\ \E enabled \in BOOLEAN :
         /\ auto_reconnect' = enabled
         /\ IF enabled THEN UNCHANGED <<timers, reconnect_timer>>
                       ELSE CancelReconnectTimer
    /\ ret' = [ret EXCEPT ![User] = "none"]
    /\ result' = [result EXCEPT ![User] = "none"]
    /\ budget' = [budget EXCEPT !.calls = @ - 1]
    /\ UNCHANGED <<status, notified, targetVars, connection_attempts,
                   reconnect_attempts, last_error, connection_lock, subVars,
                   workerVars, libVars, pc, tgt, flush>>
    /\ call' = "set_auto_reconnect"
    /\ UNCHANGED <<queueVars, formVars, poolVars, connected_calls, asked>>

\* ------------------------------------------------------------- the worker
\* _process_messages leaves its loop once shutdown_event is set.
WorkerExit ==
    /\ processing_thread
    /\ shutdown_event
    /\ wpc = "wait"
    /\ processing_thread' = FALSE
    /\ UNCHANGED <<status, notified, targetVars, connection_attempts,
                   reconnect_attempts, last_error, connection_lock,
                   auto_reconnect, reconnect_timer, subVars, timers,
                   shutdown_event, libVars, pc, tgt, ret, result, flush, budget>>
    /\ UNCHANGED call
    /\ UNCHANGED <<queueVars, formVars, poolVars, connected_calls, asked>>

\* ------------------------------------------------- the queue manager
\* The caller starts the worker: start_processing().
StartProcessingCall ==
    /\ budget.cycles > 0
    /\ StartProcessing
    /\ budget' = [budget EXCEPT !.cycles = @ - 1]
    /\ UNCHANGED <<formVars, poolVars, wrapperVars, queueVars>>

\* The caller stops the worker: stop_processing() sets the shutdown signal
\* when a worker is alive and waits for it, at most for the timeout.
StopProcessingCall ==
    /\ budget.cycles > 0
    /\ shutdown_event' = (shutdown_event \/ processing_thread)
    /\ budget' = [budget EXCEPT !.cycles = @ - 1]
    /\ UNCHANGED <<processing_thread, formVars, poolVars, wrapperVars, queueVars>>

\* time.time() moves on.
Tick ==
    /\ budget.ticks > 0
    /\ now' = now + 1
    /\ budget' = [budget EXCEPT !.ticks = @ - 1]
    /\ UNCHANGED <<formVars, poolVars, wrapperVars, workerVars, incoming_queue, message_history,
                   statVars, queue_lock, delivered, wpc, wmsg, producerVars,
                   snap>>

\* The messages add_message has been called with so far.
Arrived == MaxMsgs - budget.msgs

\* add_message up to put_nowait: the message built, and queued unless the
\* queue is full.
AddMessage ==
    /\ apc = "idle"
    /\ budget.msgs > 0
    /\ \E topic \in MsgTopics :
         LET message == [id |-> Arrived + 1, topic |-> topic, timestamp |-> now]
         IN IF Len(incoming_queue) < max_queue_size
            THEN /\ incoming_queue' = Append(incoming_queue, message)
                 /\ aret' = "True"
                 /\ UNCHANGED <<apc, amsg>>
            ELSE /\ apc' = "full"
                 /\ amsg' = message
                 /\ aret' = "none"
                 /\ UNCHANGED incoming_queue
    /\ budget' = [budget EXCEPT !.msgs = @ - 1]
    /\ UNCHANGED <<formVars, poolVars, wrapperVars, workerVars, message_history, statVars,
                   queue_lock, now, delivered, wpc, wmsg, overflow, errors, snap>>

\* on_queue_full(self.incoming_queue.qsize()); the hook returns or raises.
AddOverflowHook ==
    /\ apc = "full"
    /\ overflow' = Append(overflow, Len(incoming_queue))
    /\ \E raised \in BOOLEAN :
         /\ raised => budget.raises > 0
         /\ apc' = IF raised THEN "error" ELSE "evict"
         /\ budget' = IF raised THEN [budget EXCEPT !.raises = @ - 1] ELSE budget
    /\ UNCHANGED <<formVars, poolVars, wrapperVars, workerVars, incoming_queue, message_history,
                   statVars, queue_lock, now, delivered, wpc, wmsg, amsg, aret,
                   errors, snap>>

\* get_nowait() and put_nowait(message) in one try: the oldest queued message
\* leaves and the new one is queued; when either call fails the new message
\* is dropped.
AddEvict ==
    /\ apc = "evict"
    /\ IF incoming_queue # <<>> /\ Len(Tail(incoming_queue)) < max_queue_size
       THEN /\ incoming_queue' = Append(Tail(incoming_queue), amsg)
            /\ aret' = "True"
       ELSE /\ incoming_queue' =
                  IF incoming_queue = <<>> THEN <<>> ELSE Tail(incoming_queue)
            /\ aret' = "False"
    /\ apc' = "idle"
    /\ amsg' = NoMessage
    /\ UNCHANGED <<formVars, poolVars, wrapperVars, workerVars, message_history, statVars,
                   queue_lock, now, delivered, wpc, wmsg, overflow, errors,
                   snap, budget>>

\* The outer `except Exception`: on_error(error_msg), return False; the error
\* hook returns or raises.
AddError ==
    /\ apc = "error"
    /\ errors' = errors + 1
    /\ \E raised \in BOOLEAN :
         /\ raised => budget.raises > 0
         /\ aret' = IF raised THEN "raised" ELSE "False"
         /\ budget' = IF raised THEN [budget EXCEPT !.raises = @ - 1] ELSE budget
    /\ apc' = "idle"
    /\ amsg' = NoMessage
    /\ UNCHANGED <<formVars, poolVars, wrapperVars, workerVars, incoming_queue, message_history,
                   statVars, queue_lock, now, delivered, wpc, wmsg, overflow,
                   snap>>

\* _process_messages: `while not self.shutdown_event.is_set()` passed.
WorkerLoop ==
    /\ processing_thread
    /\ wpc = "wait"
    /\ ~shutdown_event
    /\ wpc' = "get"
    /\ UNCHANGED <<formVars, poolVars, wrapperVars, workerVars, incoming_queue, message_history,
                   statVars, queue_lock, now, delivered, wmsg, producerVars,
                   snap, budget>>

\* A worker taking the newest queued message instead of the oldest.
WorkerGetNewest ==
    /\ wpc = "get"
    /\ IF incoming_queue = <<>>
       THEN /\ wpc' = "wait"
            /\ UNCHANGED <<incoming_queue, wmsg>>
       ELSE /\ wmsg' = incoming_queue[Len(incoming_queue)]
            /\ incoming_queue' = SubSeq(incoming_queue, 1, Len(incoming_queue) - 1)
            /\ wpc' = "handle"
    /\ UNCHANGED <<formVars, poolVars, wrapperVars, workerVars, message_history, statVars,
                   queue_lock, now, delivered, producerVars, snap, budget>>

\* incoming_queue.get(timeout = 0.5): the oldest message, or Empty.
WorkerGet ==
    /\ wpc = "get"
    /\ IF incoming_queue = <<>>
       THEN /\ wpc' = "wait"
            /\ UNCHANGED <<incoming_queue, wmsg>>
       ELSE /\ wmsg' = Head(incoming_queue)
            /\ incoming_queue' = Tail(incoming_queue)
            /\ wpc' = "handle"
    /\ UNCHANGED <<formVars, poolVars, wrapperVars, workerVars, message_history, statVars,
                   queue_lock, now, delivered, producerVars, snap, budget>>

\* _handle_message under the data lock, the counters: total, last message
\* time, per-topic count, the rate window and the rate.
WorkerUpdate ==
    /\ wpc = "handle"
    /\ DataLockFree
    /\ queue_lock' = Worker
    /\ total_messages' = total_messages + 1
    /\ last_message_time' = wmsg.timestamp
    /\ topic_stats' = CountTopic(topic_stats, wmsg.topic)
    /\ rate_history' =
          DropOlder(DequeAppend(rate_history, wmsg.timestamp,
                                rate_calculation_window),
                    now - rate_calculation_window)
    /\ messages_per_second' = MessageRate(rate_history', now)
    /\ wpc' = "append"
    /\ UNCHANGED <<formVars, poolVars, wrapperVars, workerVars, incoming_queue, message_history,
                   now, delivered, wmsg, producerVars, snap, budget>>

\* _handle_message under the data lock, the history; the lock released.
WorkerAppend ==
    /\ wpc = "append"
    /\ message_history' = DequeAppend(message_history, wmsg, max_history)
    /\ queue_lock' = NoThread
    /\ wpc' = "notify"
    /\ UNCHANGED <<formVars, poolVars, wrapperVars, workerVars, incoming_queue, statVars, now,
                   delivered, wmsg, producerVars, snap, budget>>

\* on_message_processed(message) after the lock. When the observer raises,
\* _handle_message hands the error to on_error; when that raises too, the
\* loop of _process_messages hands it to on_error again; when that raises as
\* well the exception leaves the loop and the worker thread ends.
WorkerNotify ==
    /\ wpc = "notify"
    /\ delivered' = Append(delivered, wmsg)
    /\ \E raised \in 0..3 :
         /\ raised <= budget.raises
         /\ errors' = errors + Min(raised, 2)
         /\ processing_thread' = (raised < 3)
         /\ budget' = [budget EXCEPT !.raises = @ - raised]
    /\ wpc' = "wait"
    /\ wmsg' = NoMessage
    /\ UNCHANGED <<formVars, poolVars, wrapperVars, shutdown_event, incoming_queue,
                   message_history, statVars, queue_lock, now, apc, amsg, aret,
                   overflow, snap>>

\* get_recent_messages(count), count = None included.
GetRecentMessages ==
    /\ budget.reads > 0
    /\ DataLockFree
    /\ \E count \in {NoCount} \cup (0..MaxMsgs) :
         snap' = [op |-> "recent", count |-> count,
                  data |-> Copied(RecentSlice(message_history, count))]
    /\ budget' = [budget EXCEPT !.reads = @ - 1]
    /\ UNCHANGED <<formVars, poolVars, wrapperVars, workerVars, incoming_queue, message_history,
                   statVars, queue_lock, now, delivered, wpc, wmsg,
                   producerVars>>

\* What get_statistics puts in its dict.
Statistics ==
    [total_messages |-> total_messages,
     messages_per_second |-> Round2(messages_per_second),
     queue_size |-> Len(incoming_queue),
     history_size |-> Len(message_history),
     active_topics |-> Cardinality(DOMAIN topic_stats),
     topic_stats |-> topic_stats,
     last_message_time |-> last_message_time,
     is_processing |-> processing_thread]

\* get_statistics()
GetStatistics ==
    /\ budget.reads > 0
    /\ DataLockFree
    /\ snap' = [op |-> "stats", count |-> NoCount, data |-> Copied(Statistics)]
    /\ budget' = [budget EXCEPT !.reads = @ - 1]
    /\ UNCHANGED <<formVars, poolVars, wrapperVars, workerVars, incoming_queue, message_history,
                   statVars, queue_lock, now, delivered, wpc, wmsg,
                   producerVars>>

\* A clear_history that resets the statistics as well.
ClearHistoryAndStatistics ==
    /\ budget.hclears > 0
    /\ DataLockFree
    /\ message_history' = <<>>
    /\ total_messages' = 0
    /\ messages_per_second' = Zero
    /\ last_message_time' = NoTime
    /\ topic_stats' = <<>>
    /\ rate_history' = <<>>
    /\ budget' = [budget EXCEPT !.hclears = @ - 1]
    /\ UNCHANGED <<formVars, poolVars, wrapperVars, workerVars, incoming_queue, queue_lock, now,
                   delivered, wpc, wmsg, producerVars, snap>>

\* clear_history(): the history emptied under the data lock.
ClearHistory ==
    /\ budget.hclears > 0
    /\ DataLockFree
    /\ message_history' = <<>>
    /\ budget' = [budget EXCEPT !.hclears = @ - 1]
    /\ UNCHANGED <<formVars, poolVars, wrapperVars, workerVars, incoming_queue, statVars,
                   queue_lock, now, delivered, wpc, wmsg, producerVars, snap>>

\* clear_statistics(): the counters, the rate and its window reset under the
\* data lock.
ClearStatistics ==
    /\ budget.sclears > 0
    /\ DataLockFree
    /\ total_messages' = 0
    /\ messages_per_second' = Zero
    /\ last_message_time' = NoTime
    /\ topic_stats' = <<>>
    /\ rate_history' = <<>>
    /\ budget' = [budget EXCEPT !.sclears = @ - 1]
    /\ UNCHANGED <<formVars, poolVars, wrapperVars, workerVars, incoming_queue, message_history,
                   queue_lock, now, delivered, wpc, wmsg, producerVars, snap>>

\* get_subscribed_topics()
GetSubscribedTopics ==
    /\ budget.reads > 0
    /\ snap' = [op |-> "topics", count |-> NoCount,
                data |-> Copied(subscribed_topics)]
    /\ budget' = [budget EXCEPT !.reads = @ - 1]
    /\ UNCHANGED <<formVars, poolVars, wrapperVars, workerVars, incoming_queue, message_history,
                   statVars, queue_lock, now, delivered, wpc, wmsg,
                   producerVars>>

\* What the object a reader returned refers to when it is no copy.
Live(s) ==
    CASE s.op = "recent" -> RecentSlice(message_history, s.count)
      [] s.op = "stats" -> Statistics
      [] s.op = "topics" -> subscribed_topics
      [] OTHER -> <<>>

\* The value the caller sees in what the last read returned.
Returned == IF snap.data.ref THEN Live(snap) ELSE snap.data.val

\* The returned value after list.clear() or dict.clear() on it; of the
\* statistics it is the per-topic map that is cleared.
Cleared(s, v) ==
    IF s.op = "stats" THEN [v EXCEPT !.topic_stats = <<>>] ELSE <<>>

\* The caller clears the list or map it was handed: the object itself when it
\* is a copy, the internal collection when it is a live reference.
MutateReturned ==
    /\ budget.edits > 0
    /\ snap.op # "none"
    /\ Returned # Cleared(snap, Returned)
    /\ snap' = IF snap.data.ref THEN snap
               ELSE [snap EXCEPT !.data.val = Cleared(snap, @)]
    /\ message_history' =
          IF snap.data.ref /\ snap.op = "recent" THEN <<>> ELSE message_history
    /\ topic_stats' =
          IF snap.data.ref /\ snap.op = "stats" THEN <<>> ELSE topic_stats
    /\ subscribed_topics' =
          IF snap.data.ref /\ snap.op = "topics" THEN <<>> ELSE subscribed_topics
    /\ budget' = [budget EXCEPT !.edits = @ - 1]
    /\ UNCHANGED <<status, notified, targetVars, connection_attempts,
                   reconnect_attempts, last_error, connection_lock,
                   auto_reconnect, reconnect_timer, pending_subscriptions,
                   timers, workerVars, libVars, pc, tgt, ret, result, flush,
                   call, connected_calls, formVars, poolVars, asked>>
    /\ UNCHANGED <<incoming_queue, total_messages, messages_per_second,
                   last_message_time, rate_history, queue_lock, now, delivered,
                   wpc, wmsg, producerVars>>

\* The subscribe form checks the topic typed in: validate_topic(topic).
Validate ==
    /\ topic_valid = "none"
    /\ topic_valid' = Bool(ValidateTopic(topic_input))
    /\ UNCHANGED <<topic_input, poolVars, wrapperVars, workerVars, queueVars,
                   budget>>

\* ------------------------------------- start_processing, stop_processing
\* The two methods as the statements of a calling thread c, for callers that
\* use the queue manager directly.

\* start_processing, the test of its first line: nothing to do while the
\* worker is alive.
StartCheck(c) ==
    /\ spc[c] = "idle"
    /\ budget.cycles > 0
    /\ spc' = [spc EXCEPT ![c] = IF processing_thread THEN "idle" ELSE "clear"]
    /\ budget' = [budget EXCEPT !.cycles = @ - 1]
    /\ UNCHANGED <<join_until, extra_workers, formVars, wrapperVars, workerVars,
                   queueVars>>

\* shutdown_event.clear()
StartClear(c) ==
    /\ spc[c] = "clear"
    /\ shutdown_event' = FALSE
    /\ spc' = [spc EXCEPT ![c] = "create"]
    /\ UNCHANGED <<join_until, extra_workers, processing_thread, formVars,
                   wrapperVars, queueVars, budget>>

\* processing_thread = Thread(target = _process_messages); start().  A worker
\* that is alive when the attribute is overwritten runs on without a
\* reference; a caller joining the thread the attribute referred to goes on
\* joining that one.  The new worker begins at its loop test.
StartCreate(c) ==
    /\ spc[c] = "create"
    /\ extra_workers' = extra_workers + (IF processing_thread THEN 1 ELSE 0)
    /\ processing_thread' = TRUE
    /\ wpc' = "wait"
    /\ wmsg' = NoMessage
    /\ spc' = [d \in QueueCallers |->
                 IF d = c THEN "idle"
                 ELSE IF spc[d] = "join" THEN "join_old" ELSE spc[d]]
    /\ UNCHANGED <<join_until, shutdown_event, formVars, wrapperVars,
                   incoming_queue, message_history, statVars, queue_lock, now,
                   delivered, producerVars, snap, budget>>

\* stop_processing up to its join: nothing to do without a live worker, else
\* the shutdown signal set.
StopSignal(c) ==
    /\ spc[c] = "idle"
    /\ budget.cycles > 0
    /\ IF processing_thread
       THEN /\ shutdown_event' = TRUE
            /\ spc' = [spc EXCEPT ![c] = "join"]
            /\ \E timeout \in StopTimeouts :
                  join_until' = [join_until EXCEPT ![c] = now + timeout]
       ELSE UNCHANGED <<shutdown_event, spc, join_until>>
    /\ budget' = [budget EXCEPT !.cycles = @ - 1]
    /\ UNCHANGED <<extra_workers, processing_thread, formVars, wrapperVars,
                   queueVars>>

\* The thread caller c joins has ended: the worker the attribute refers to,
\* or the one it referred to before it was overwritten.
JoinedThreadEnded(c) ==
    \/ spc[c] = "join" /\ ~processing_thread
    \/ spc[c] = "join_old" /\ extra_workers = 0

\* A join that returns whenever it is asked to.
JoinReturnsAtOnce(c) == TRUE

\* processing_thread.join(timeout) may return: the thread has ended, or the
\* timeout has passed.
JoinReturns(c) == JoinedThreadEnded(c) \/ now >= join_until[c]

\* processing_thread.join(timeout = timeout) returns and stop_processing
\* logs how it went.
StopJoin(c) ==
    /\ spc[c] \in {"join", "join_old"}
    /\ JoinReturns(c)
    /\ spc' = [spc EXCEPT ![c] = "idle"]
    /\ UNCHANGED <<join_until, extra_workers, formVars, wrapperVars, workerVars, queueVars,
                   budget>>

\* A worker without a reference leaves its loop once shutdown_event is set.
ExtraWorkerExit ==
    /\ extra_workers > 0
    /\ shutdown_event
    /\ extra_workers' = extra_workers - 1
    /\ UNCHANGED <<spc, join_until, formVars, wrapperVars, workerVars, queueVars,
                   budget>>

\* ------------------------------------------------------------------ Next
ConnectSteps ==
    \E th \in TimerIds \cup {User} :
        ConnectEnter(th) \/ ConnectLib(th) \/ ConnectStart(th)
ScheduleSteps == \E th \in TimerIds \cup {Net} : Schedule1(th) \/ Schedule2(th)
TimerSteps ==
    \E i \in TimerIds : TimerFire(i) \/ Attempt(i) \/ TimerEnd(i)

\* The connection machine: the caller connects, disconnects and switches
\* auto-reconnect; the subscription registry stays empty.
Next ==
    \/ UserConnect
    \/ UserDisconnect
    \/ DisconnectJoin
    \/ DisconnectClose
    \/ DisconnectFinish
    \/ UserSetAutoReconnect
    \/ ConnectSteps
    \/ ScheduleSteps
    \/ TimerSteps
    \/ OnConnectAccepted
    \/ OnConnectRefused
    \/ OnDisconnectUnexpected
    \/ LoopReconnect
    \/ OnConnectFail
    \/ WorkerExit

Spec == Init /\ [][Next]_vars

\* The subscription registry over the connection machine: the caller also
\* subscribes and unsubscribes; no reconnect timer expires.
NextSub ==
    \/ UserConnect
    \/ UserDisconnect
    \/ DisconnectJoin
    \/ DisconnectClose
    \/ DisconnectFinish
    \/ UserSubscribe
    \/ UserUnsubscribe
    \/ ConnectSteps
    \/ ScheduleSteps
    \/ OnConnectAccepted
    \/ OnConnectFlush
    \/ OnConnectRefused
    \/ OnDisconnectUnexpected
    \/ LoopReconnect
    \/ OnConnectFail
    \/ WorkerExit

SpecSub == InitSub /\ [][NextSub]_vars

\* The reconnect loop: one connect() by the caller, the protocol client's
\* callbacks and the timers.
NextBackoff ==
    \/ UserConnect
    \/ ConnectSteps
    \/ ScheduleSteps
    \/ TimerSteps
    \/ OnConnectAccepted
    \/ OnConnectRefused
    \/ OnDisconnectUnexpected
    \/ LoopReconnect
    \/ OnConnectFail

SpecBackoff == InitBackoff /\ [][NextBackoff]_vars

\* The ingestion pipeline: the caller starts and stops the worker, messages
\* arrive, the worker handles them, the caller reads; the hooks return.
NextQueue ==
    \/ StartProcessingCall
    \/ StopProcessingCall
    \/ AddMessage
    \/ AddOverflowHook
    \/ AddEvict
    \/ WorkerLoop
    \/ WorkerGet
    \/ WorkerUpdate
    \/ WorkerAppend
    \/ WorkerNotify
    \/ WorkerExit
    \/ GetRecentMessages
    \/ GetStatistics

SpecQueue == InitQueue /\ [][NextQueue]_vars

\* The same with a worker thread that is scheduled whenever it can step.
SpecQueueFair ==
    /\ SpecQueue
    /\ WF_vars(WorkerLoop)
    /\ WF_vars(WorkerGet)
    /\ WF_vars(WorkerUpdate)
    /\ WF_vars(WorkerAppend)
    /\ WF_vars(WorkerNotify)

\* The ingestion pipeline while the clock moves: messages arrive and are
\* handled at different times.
NextRate ==
    \/ StartProcessingCall
    \/ Tick
    \/ AddMessage
    \/ AddOverflowHook
    \/ AddEvict
    \/ WorkerLoop
    \/ WorkerGet
    \/ WorkerUpdate
    \/ WorkerAppend
    \/ WorkerNotify

SpecRate == InitRate /\ [][NextRate]_vars

\* The ingestion pipeline after a burst, around the end of the rate window.
NextWindow ==
    \/ Tick
    \/ AddMessage
    \/ AddOverflowHook
    \/ AddEvict
    \/ WorkerLoop
    \/ WorkerGet
    \/ WorkerUpdate
    \/ WorkerAppend
    \/ WorkerNotify

SpecWindow == InitWindow /\ [][NextWindow]_vars

\* One connection with subscriptions, messages arriving and handled, and a
\* caller that reads and then changes what it was handed.
NextRead ==
    \/ UserConnect
    \/ ConnectSteps
    \/ OnConnectAccepted
    \/ OnConnectFlush
    \/ UserSubscribe
    \/ AddMessage
    \/ AddOverflowHook
    \/ AddEvict
    \/ WorkerLoop
    \/ WorkerGet
    \/ WorkerUpdate
    \/ WorkerAppend
    \/ WorkerNotify
    \/ GetRecentMessages
    \/ GetStatistics
    \/ GetSubscribedTopics
    \/ MutateReturned

SpecRead == InitRead /\ [][NextRead]_vars

\* The ingestion pipeline with a caller that resets history and statistics
\* and reads the statistics.
NextClear ==
    \/ StartProcessingCall
    \/ AddMessage
    \/ AddOverflowHook
    \/ AddEvict
    \/ WorkerLoop
    \/ WorkerGet
    \/ WorkerUpdate
    \/ WorkerAppend
    \/ WorkerNotify
    \/ GetStatistics
    \/ ClearHistory
    \/ ClearStatistics

SpecClear == InitClear /\ [][NextClear]_vars

\* The topic validator applied to every short text.
NextTopic == Validate

SpecTopic == InitTopic /\ [][NextTopic]_vars

\* Connections that the broker refuses or that never reach it: the caller
\* connects and switches auto-reconnect, the timers retry.
NextRefuse ==
    \/ UserConnect
    \/ UserSetAutoReconnect
    \/ ConnectSteps
    \/ ScheduleSteps
    \/ TimerSteps
    \/ OnConnectRefused
    \/ LoopReconnect
    \/ OnConnectFail

SpecRefuse == InitRefuse /\ [][NextRefuse]_vars

\* One thread starts and stops the worker, as connect() and disconnect() do
\* under the connection lock; messages arrive and are handled, time passes.
NextStop ==
    \/ StartCheck(1)
    \/ StartClear(1)
    \/ StartCreate(1)
    \/ StopSignal(1)
    \/ StopJoin(1)
    \/ Tick
    \/ AddMessage
    \/ AddOverflowHook
    \/ AddEvict
    \/ WorkerLoop
    \/ WorkerGet
    \/ WorkerUpdate
    \/ WorkerAppend
    \/ WorkerNotify
    \/ WorkerExit

SpecStop == InitStop /\ [][NextStop]_vars

\* The same with a worker thread that is scheduled whenever it can step.
SpecStopFair ==
    /\ SpecStop
    /\ WF_vars(WorkerLoop)
    /\ WF_vars(WorkerGet)
    /\ WF_vars(WorkerUpdate)
    /\ WF_vars(WorkerAppend)
    /\ WF_vars(WorkerNotify)
    /\ WF_vars(WorkerExit)

\* Several threads start and stop the worker on their own.
NextStart ==
    \/ \E c \in QueueCallers :
          \/ StartCheck(c)
          \/ StartClear(c)
          \/ StartCreate(c)
          \/ StopSignal(c)
          \/ StopJoin(c)
    \/ Tick
    \/ WorkerLoop
    \/ WorkerGet
    \/ WorkerExit
    \/ ExtraWorkerExit

SpecStart == InitStart /\ [][NextStart]_vars

\* The ingestion pipeline with observers that may raise.
NextHooks ==
    \/ StartProcessingCall
    \/ StopProcessingCall
    \/ AddMessage
    \/ AddOverflowHook
    \/ AddEvict
    \/ AddError
    \/ WorkerLoop
    \/ WorkerGet
    \/ WorkerUpdate
    \/ WorkerAppend
    \/ WorkerNotify
    \/ WorkerExit

SpecHooks == InitHooks /\ [][NextHooks]_vars

\* ---------------------------------------------------------------- claims
Callers == TimerIds \cup {User}

\* Thread th leaves the given position of its code in this step.
Leaves(th, at) == pc[th] = at /\ pc'[th] # at

\* C1: connect() that finds the status Connecting or Connected returns False
\* and changes nothing: status, recorded host/port/credentials, last error,
\* both attempt counters, the reconnect timer, the worker, the subscriptions
\* and the observer are as before, and no library connect request is issued.
ConnectRejectedChangesNothing ==
    [][\A th \in Callers :
          (Leaves(th, "connect") /\ status \in {CONNECTING, CONNECTED})
          => /\ ret'[th] = "False"
             /\ result'[th] = "none"
             /\ pc'[th] # "connect_lib"
             /\ UNCHANGED <<status, notified, targetVars, last_error,
                            connection_attempts, reconnect_attempts,
                            reconnect_timer, timers, workerVars, libVars,
                            subVars, connection_lock>>]_vars

\* The caller's connect() has returned False without a library call while
\* the status was Connecting or Connected.
ConnectRejectedSeen ==
    /\ call = "connect"
    /\ pc[User] = "idle"
    /\ ret[User] = "False"
    /\ result[User] = "none"
    /\ status \in {CONNECTING, CONNECTED}

\* C2: connect() that finds the status Disconnected, Connection Failed or
\* Connection Lost records the given host/port/credentials, sets the status
\* Connecting and issues the library connect request; it goes on to
\* start_processing exactly when the library reports success, and returns
\* True exactly then; the worker comes alive in no other step.
ConnectAcceptedStartsWorker ==
    [][/\ \A th \in Callers :
            /\ (Leaves(th, "connect")
                  /\ status \in {DISCONNECTED, CONNECTION_FAILED, CONNECTION_LOST})
               => /\ host' = tgt[th].host
                  /\ port' = tgt[th].port
                  /\ username' = tgt[th].username
                  /\ password' = tgt[th].password
                  /\ status' = CONNECTING
                  /\ pc'[th] = "connect_lib"
            /\ Leaves(th, "connect_lib")
               => /\ result'[th] \in LibResults
                  /\ (result'[th] = "OK") <=> (pc'[th] = "connect_start")
                  /\ (result'[th] # "OK")
                     => (ret'[th] = "False" /\ UNCHANGED workerVars)
            /\ Leaves(th, "connect_start")
               => /\ ret'[th] = "True"
                  /\ result'[th] = "OK"
                  /\ processing_thread'
                  /\ ~processing_thread => ~shutdown_event'
       /\ (processing_thread' /\ ~processing_thread)
          => \E th \in Callers : Leaves(th, "connect_start")]_vars

\* The caller's connect() has returned True with the worker started, and the
\* status still Connecting.
ConnectAcceptedSeen ==
    /\ call = "connect"
    /\ pc[User] = "idle"
    /\ ret[User] = "True"
    /\ result[User] = "OK"
    /\ processing_thread /\ ~shutdown_event
    /\ status = CONNECTING
    /\ host = tgt[User].host

\* The library connect call of thread th fails in this step.
ConnectFailsSync(th) == Leaves(th, "connect_lib") /\ result'[th] # "OK"

ConnectedOnlyFromConnecting ==
    [][(status' = CONNECTED /\ status # CONNECTED) => status = CONNECTING]_vars

\* disconnect() returns in this step.
DisconnectReturns == pc[User] \in {"disc_close", "disc_finish"} /\ pc'[User] = "idle"

\* C5 as stated: from any status, disconnect() leaves no reconnect timer
\* pending, has told the worker to stop, has asked the library to close the
\* session when the status was Connected or Connecting, and leaves the
\* status Disconnected when it returns.
DisconnectAlwaysLeavesDisconnected ==
    [][DisconnectReturns
       => /\ status' = DISCONNECTED
          /\ \A i \in TimerIds : timers'[i].st # "pending"
          /\ processing_thread' => shutdown_event'
          /\ (pc[User] = "disc_close") => (result'[User] \in LibResults)]_vars

\* What a caller can observe of the wrapper: get_status, get_connection_info,
\* get_last_error, the subscription getters, and what the observer was told.
observable ==
    <<status, notified, targetVars, last_error, connection_attempts,
      reconnect_attempts, auto_reconnect, subVars>>

\* C6: a disconnect() that returns True leaves the status Disconnected, and a
\* disconnect() called again while the status is Disconnected is a no-op
\* success: it issues no library call, returns True, changes nothing a
\* caller can observe and tells the observer nothing (no second Disconnected
\* notification).
DisconnectTwiceIdempotent ==
    [][/\ (DisconnectReturns /\ ret'[User] = "True") => status' = DISCONNECTED
       /\ (call' = "disconnect" /\ Leaves(User, "idle") /\ status = DISCONNECTED)
          => /\ pc'[User] \in {"disc_join_idle", "disc_finish"}
             /\ UNCHANGED <<observable, libVars>>
       /\ (pc[User] \in {"disc_join_idle", "disc_finish"}
             /\ pc'[User] # pc[User] /\ status = DISCONNECTED)
          => /\ UNCHANGED <<observable, libVars>>
             /\ result'[User] = "none"
             /\ pc'[User] = "idle" => ret'[User] = "True"]_vars

\* A disconnect() is about to finish while the status is Disconnected and the
\* observer has already been told Disconnected by an earlier disconnect().
SecondDisconnectSeen ==
    /\ pc[User] = "disc_finish"
    /\ status = DISCONNECTED
    /\ notified.last = DISCONNECTED
    /\ budget.calls = 0

\* C7 as stated: once disconnect() has returned True and until the caller
\* calls again, the status is Disconnected and no thread is in connect()
\* issuing a library connect request, whatever timer had fired and whatever
\* callback was in flight.
DisconnectedIsTerminal ==
    (call = "disconnect" /\ pc[User] = "idle" /\ ret[User] = "True")
    => /\ status = DISCONNECTED
       /\ \A i \in TimerIds : pc[i] \notin {"connect_lib", "connect_start"}

\* The delays of the first six schedulings, in seconds; 60 from then on.
DelaySequence == <<1, 2, 4, 8, 16, 32>>
ExpectedDelay(attempt) ==
    IF attempt < Len(DelaySequence) THEN DelaySequence[attempt + 1] ELSE 60

\* Thread th creates and starts the reconnect Timer in this step.
Schedules(th) == Leaves(th, "sched_timer")

\* C8: each scheduling arms the timer with the delay 1, 2, 4, 8, 16, 32, 60,
\* 60, ... for the attempt number 0, 1, 2, ... it finds in the counter and
\* adds one to the counter; the counter is 0 after every transition to
\* Connected, and nothing else changes it.
BackoffSequence ==
    [][/\ \A th \in TimerIds \cup {Net} :
            Schedules(th)
            => /\ reconnect_timer' # 0
               /\ timers'[reconnect_timer'] =
                     [st |-> "pending",
                      interval |-> ExpectedDelay(reconnect_attempts)]
               /\ reconnect_attempts' = reconnect_attempts + 1
       /\ (status' = CONNECTED /\ status # CONNECTED) => reconnect_attempts' = 0
       /\ reconnect_attempts' # reconnect_attempts
          => \/ \E th \in TimerIds \cup {Net} : Schedules(th)
             \/ status' = CONNECTED]_vars

\* The ninth consecutive scheduling has armed a timer: after 1, 2, 4, 8, 16,
\* 32, 60 and 60 seconds the pending delay is 60 seconds again.
BackoffCapSeen ==
    /\ reconnect_attempts = MaxBackoff + 1
    /\ reconnect_timer # 0
    /\ timers[reconnect_timer] = [st |-> "pending", interval |-> 60]

\* C9 as stated: while auto-reconnect is disabled or no host is recorded, no
\* reconnect timer is scheduled and no timer thread issues a library connect
\* request, also when auto-reconnect was disabled while a timer was pending
\* or had just fired.
NoReconnectWhenDisabled ==
    [][(~auto_reconnect \/ host = None)
       => /\ \A i \in TimerIds :
                timers'[i].st = "pending" => timers[i].st = "pending"
          /\ \A i \in TimerIds : ~Leaves(i, "connect_lib")]_vars

\* get_subscribed_topics() lists the topic.
Listed(subscribed, topic) == topic \in DOMAIN subscribed

\* C10 as stated: a topic passed to subscribe_to_topic while the status is
\* Disconnected is pending afterwards and not listed by
\* get_subscribed_topics(); the flush of a connect acknowledgment either
\* subscribes a pending topic (listed, no longer pending) or, its subscribe
\* failing, leaves it pending and the listing as it was.
PendingUntilConnected ==
    [][/\ (call' = "subscribe" /\ budget'.subs # budget.subs
             /\ status = DISCONNECTED)
          => \E topic \in Topics :
                /\ pending_subscriptions' \in
                      {pending_subscriptions,
                       Append(pending_subscriptions, topic)}
                /\ InList(pending_subscriptions', topic)
                /\ ~Listed(subscribed_topics', topic)
       /\ Leaves(Net, "flush") \/ (pc[Net] = "flush" /\ flush' # flush)
          => LET topic == Head(flush)
             IN \/ /\ Listed(subscribed_topics', topic)
                   /\ ~InList(pending_subscriptions', topic)
                \/ /\ InList(pending_subscriptions', topic)
                   /\ subscribed_topics' = subscribed_topics]_vars

\* The caller's subscribe_to_topic / unsubscribe_from_topic runs in this step.
Subscribes == call' = "subscribe" /\ budget'.subs # budget.subs
Unsubscribes == call' = "unsubscribe" /\ budget'.subs # budget.subs

\* C11 as stated: subscribe_to_topic while the status is not Connected leaves
\* the topic on the pending list exactly once (appended, or the list as it
\* was when the topic is already pending) and returns True in both cases.
SubscribeQueuedReportsSuccess ==
    [][(Subscribes /\ status # CONNECTED)
       => /\ ret'[User] = "True"
          /\ \E topic \in Topics :
                pending_subscriptions' =
                   IF InList(pending_subscriptions, topic)
                   THEN pending_subscriptions
                   ELSE Append(pending_subscriptions, topic)]_vars

\* C12: subscribe_to_topic while the status is Connected issues a library
\* subscribe request; accepted, topic -> qos is recorded in the active map
\* and True is returned; rejected or raising, False is returned and neither
\* the active map nor the pending list changes.
SubscribeConnected ==
    [][(Subscribes /\ status = CONNECTED)
       => /\ result'[User] \in LibResults
          /\ pending_subscriptions' = pending_subscriptions
          /\ \/ /\ result'[User] = "OK"
                /\ ret'[User] = "True"
                /\ \E topic \in Topics, qos \in QoS :
                      subscribed_topics' = DictSet(subscribed_topics, topic, qos)
             \/ /\ result'[User] \in {"ERR", "EXC"}
                /\ ret'[User] = "False"
                /\ subscribed_topics' = subscribed_topics]_vars

\* A subscribe_to_topic with QoS 1 was accepted by the library while
\* Connected: the topic is listed with its QoS and nothing is pending.
SubscribeConnectedSeen ==
    /\ call = "subscribe"
    /\ status = CONNECTED
    /\ result[User] = "OK"
    /\ ret[User] = "True"
    /\ \E topic \in Topics :
          Listed(subscribed_topics, topic) /\ subscribed_topics[topic] = 1
    /\ pending_subscriptions = <<>>

\* C13: unsubscribe_from_topic while the status is not Connected returns
\* False, issues no library request and leaves the active map and the
\* pending list as they were; while Connected it issues the request, removes
\* the topic from the active map when the library accepts it, and leaves the
\* map unchanged when the library rejects it or raises.
UnsubscribeOnlyConnected ==
    [][Unsubscribes
       => /\ pending_subscriptions' = pending_subscriptions
          /\ IF status # CONNECTED
             THEN /\ ret'[User] = "False"
                  /\ result'[User] = "none"
                  /\ subscribed_topics' = subscribed_topics
             ELSE /\ result'[User] \in LibResults
                  /\ \/ /\ result'[User] = "OK"
                        /\ ret'[User] = "True"
                        /\ \E topic \in Topics :
                              /\ ~Listed(subscribed_topics', topic)
                              /\ subscribed_topics' =
                                    DictPop(subscribed_topics, topic)
                     \/ /\ result'[User] \in {"ERR", "EXC"}
                        /\ ret'[User] = "False"
                        /\ subscribed_topics' = subscribed_topics]_vars

\* An unsubscribe_from_topic of a listed topic was rejected by the library
\* while Connected: the topic is still listed.
UnsubscribeRejectedSeen ==
    /\ call = "unsubscribe"
    /\ status = CONNECTED
    /\ result[User] \in {"ERR", "EXC"}
    /\ ret[User] = "False"
    /\ \E topic \in Topics : Listed(subscribed_topics, topic)
\* ------------------------------------------------------ message history
\* The messages whose history entry has been written, in that order.
Processed == delivered \o (IF wpc = "notify" THEN <<wmsg>> ELSE <<>>)

\* C14: the history never holds more than max_history messages, and it is
\* exactly the most recent max_history processed messages, oldest first, in
\* the order they arrived (ids ascending).
HistoryBounded ==
    /\ Len(message_history) <= max_history
    /\ message_history = LastN(Processed, max_history)
    /\ \A i, j \in 1..Len(message_history) :
         i < j => message_history[i].id < message_history[j].id

HistoryEvictedSeen ==
    /\ Len(Processed) > max_history
    /\ Len(message_history) = max_history
    /\ message_history[1] # Processed[1]

\* ------------------------------------------------------------ overflow
\* The eviction step of add_message ends.
EvictionEnds == apc = "evict" /\ apc' = "idle"

\* The retried put_nowait finds the queue full again.
RetryFails == incoming_queue # <<>> /\ Len(Tail(incoming_queue)) >= max_queue_size

\* C15: on a full queue add_message calls the overflow hook once with the
\* current size, evicts the oldest queued message, queues the new one at the
\* tail and returns True, the queue never above max_queue_size; the new
\* message is dropped, False returned, only when the retried push fails.
OverflowDropsOnlyWhenRetryFails ==
    [][/\ Len(incoming_queue') <= max_queue_size
       /\ (apc = "full" /\ apc' # "full") =>
              overflow' = Append(overflow, Len(incoming_queue))
       /\ (EvictionEnds /\ ~RetryFails) =>
              /\ aret' = "True"
              /\ incoming_queue' = Append(Tail(incoming_queue), amsg)
       /\ (EvictionEnds /\ aret' = "False") => RetryFails]_vars

\* C16: add_message never raises, whatever its observers do: it returns
\* True or False.
AddMessageNeverRaises == aret # "raised"

\* ------------------------------------------------------------ delivery
\* The message the worker has taken and not yet delivered.
InFlight == IF wpc \in {"handle", "append", "notify"} THEN <<wmsg>> ELSE <<>>

\* Delivered, being handled, queued: every message add_message accepted that
\* the overflow policy has not evicted.
Pipeline == delivered \o InFlight \o incoming_queue

\* Enqueue order, each message once.
Ordered(h) == \A i, j \in 1..Len(h) : i < j => h[i].id < h[j].id

\* C17: every accepted message that is not evicted reaches the
\* message-processed observer exactly once and in enqueue order, with the
\* data lock released and after its counters and history entry were written,
\* across stop_processing/start_processing; with a worker that stays alive
\* every queued message is delivered.
DeliveredOnceInOrder ==
    /\ [][/\ Ordered(Pipeline')
          /\ \/ Pipeline' = Pipeline
             \/ /\ Len(Pipeline') = Len(Pipeline) + 1
                /\ SubSeq(Pipeline', 1, Len(Pipeline)) = Pipeline
             \/ /\ EvictionEnds
                /\ delivered' = delivered
                /\ InFlight' = InFlight
          /\ delivered' # delivered =>
                /\ delivered' = Append(delivered, wmsg)
                /\ wpc = "notify"
                /\ DataLockFree
                /\ message_history # <<>>
                /\ message_history[Len(message_history)] = wmsg
                /\ wmsg.topic \in DOMAIN topic_stats
                /\ last_message_time = wmsg.timestamp
                /\ total_messages >= Len(delivered')]_vars
    /\ <>[](processing_thread /\ ~shutdown_event) =>
          <>[](incoming_queue = <<>> /\ InFlight = <<>>)

DeliveredAfterEvictionSeen ==
    /\ overflow # <<>>
    /\ budget.cycles = 0
    /\ Len(delivered) = 2
    /\ delivered[1].id = 2
    /\ incoming_queue = <<>>

\* ---------------------------------------------------------------- rate
\* Timestamps a constant positive distance apart.
EvenlySpaced(h) ==
    /\ Len(h) >= 2
    /\ h[2] - h[1] > 0
    /\ \A i \in 1..(Len(h) - 1) : h[i + 1] - h[i] = h[2] - h[1]

\* C18: with K >= 2 evenly spaced timestamps in the rate window,
\* messages_per_second is (K - 1) / (newest - oldest); with fewer than two
\* it is 0.
RateOfEvenlySpaced ==
    /\ EvenlySpaced(rate_history) =>
          messages_per_second.num
              * (rate_history[Len(rate_history)] - rate_history[1])
          = messages_per_second.den * (Len(rate_history) - 1)
    /\ Len(rate_history) < 2 => messages_per_second.num = 0

\* --------------------------------------------------------------- reads
\* The sum of the per-topic counts.
RECURSIVE SumCounts(_, _)
SumCounts(stats, topics) ==
    IF topics = {} THEN 0
    ELSE LET t == CHOOSE x \in topics : TRUE
         IN stats[t] + SumCounts(stats, topics \ {t})

\* A read or a change of the returned object happens in this step.
Reads == budget'.reads # budget.reads
Edits == budget'.edits # budget.edits

\* What was returned belongs to one state of the data: the statistics count
\* as many messages in total as per topic and as the history holds (up to
\* its capacity); the messages are a tail of the history; the topics are the
\* subscription map.
SingleState(s) ==
    CASE s.op = "stats" ->
            /\ s.data.val.total_messages
                 = SumCounts(s.data.val.topic_stats,
                             DOMAIN s.data.val.topic_stats)
            /\ s.data.val.history_size
                 = Min(s.data.val.total_messages, max_history)
            /\ s.data.val.active_topics
                 = Cardinality(DOMAIN s.data.val.topic_stats)
            /\ (s.data.val.total_messages = 0)
                 = (s.data.val.last_message_time = NoTime)
      [] s.op = "recent" ->
            /\ Ordered(s.data.val)
            /\ s.data.val = LastN(message_history, Len(s.data.val))
      [] s.op = "topics" -> s.data.val = subscribed_topics
      [] OTHER -> TRUE

\* C19: what get_recent_messages, get_statistics and get_subscribed_topics
\* return is a copy taken in one state of the data: later processing and
\* later subscriptions never change it, clearing it never changes the
\* history, the per-topic counts or the subscription map, and it never shows
\* a message half handled.
ReadsAreSnapshots ==
    [][/\ (~Reads /\ ~Edits) => Returned' = Returned
       /\ Edits => UNCHANGED <<message_history, topic_stats, subscribed_topics>>
       /\ Reads => SingleState(snap)']_vars

ReadSurvivedSeen ==
    /\ budget.edits = 0
    /\ snap.op = "stats"
    /\ snap.data.val.total_messages = 1
    /\ snap.data.val.topic_stats = <<>>
    /\ total_messages = 3
    /\ DOMAIN topic_stats = MsgTopics
    /\ DOMAIN subscribed_topics = Topics

\* C20: get_recent_messages(count) returns the min(count, history length)
\* newest messages, oldest first, for every count >= 0, none for count = 0;
\* without a count it returns the whole history.
RecentReturnsAtMostCount ==
    [][(Reads /\ snap'.op = "recent") =>
          snap'.data.val =
             IF snap'.count = NoCount THEN message_history
             ELSE LastN(message_history,
                        Min(snap'.count, Len(message_history)))]_vars

\* -------------------------------------------------------------- resets
\* clear_history or clear_statistics happens in this step.
ClearsHistory == budget'.hclears # budget.hclears
ClearsStatistics == budget'.sclears # budget.sclears

\* C21: clear_history empties the history and leaves counters, rate window,
\* last-message time and incoming queue alone; clear_statistics resets the
\* counters, the rate and the last-message time and leaves history and
\* incoming queue alone; both happen only while no message is half handled,
\* and no reader sees counters that are partly reset.
ResetsIndependentAndAtomic ==
    [][/\ ClearsHistory =>
             /\ message_history' = <<>>
             /\ UNCHANGED <<statVars, incoming_queue>>
             /\ queue_lock = NoThread
       /\ ClearsStatistics =>
             /\ total_messages' = 0
             /\ topic_stats' = <<>>
             /\ messages_per_second' = Zero
             /\ last_message_time' = NoTime
             /\ UNCHANGED <<message_history, incoming_queue>>
             /\ queue_lock = NoThread
       /\ total_messages' = SumCounts(topic_stats', DOMAIN topic_stats')
       /\ (total_messages' = 0) = (last_message_time' = NoTime)
       /\ (Reads /\ snap'.op = "stats") =>
             /\ snap'.data.val.total_messages
                  = SumCounts(snap'.data.val.topic_stats,
                              DOMAIN snap'.data.val.topic_stats)
             /\ (snap'.data.val.total_messages = 0)
                  = (snap'.data.val.last_message_time = NoTime)]_vars

BothResetsSeen ==
    /\ budget.hclears = 0
    /\ budget.sclears = 0
    /\ total_messages = 0
    /\ Len(message_history) = 1
    /\ Len(delivered) = 2

\* ------------------------------------------------------- topic filters
\* The topic filter rule: not empty, none of the rejected characters, a
\* level that holds a wildcard is that wildcard alone, and # only as the
\* last level.
WellFormedFilter(t) ==
    LET parts == Split(t, <<>>)
    IN /\ t # <<>>
       /\ \A c \in invalid_chars : ~Contains(t, c)
       /\ \A i \in 1..Len(parts) :
            (Contains(parts[i], "+") \/ Contains(parts[i], "#"))
               => Len(parts[i]) = 1
       /\ \A i \in 1..(Len(parts) - 1) : ~Contains(parts[i], "#")

\* C22: validate_topic accepts a topic filter exactly when it is well
\* formed; it rejects a/#/a and a+a/a and accepts a/+/a and a/#.
ValidatorMatchesRule ==
    topic_valid # "none" =>
        (topic_valid = "True") = WellFormedFilter(topic_input)

\* ------------------------------------------------------ observer faults
\* C23: an exception of an observer stays with that call: the step that
\* hands a message to the message-processed observer never ends the worker,
\* and add_message never passes an observer's exception on to its caller.
ObserverFaultsIsolated ==
    [][/\ wpc = "notify" => processing_thread' = processing_thread
       /\ apc # "idle" => aret' # "raised"]_vars

\* ------------------------------------------------------ failure reasons
\* A public operation of the caller returns False in this step.
CallFails ==
    /\ ret'[User] = "False"
    /\ ret[User] # "False" \/ Subscribes \/ Unsubscribes

\* C24: every connect, disconnect, subscribe or unsubscribe that fails
\* returns False and leaves a reason in last_error, where get_last_error()
\* and get_connection_info() find it.
FailureLeavesReason == [][CallFails => last_error' # None]_vars

\* ------------------------------------------------------ observers, locks
\* The thread that steps holds the connection lock before or after the step.
StepsUnderConnectionLock ==
    \E th \in Callers :
        /\ pc'[th] # pc[th]
        /\ connection_lock = th \/ connection_lock' = th

\* C25: no observer is called by a thread that holds the connection lock or
\* the data lock: the status observer is told outside the connection lock,
\* the message-processed observer outside the data lock.
ObserversOutsideLocks ==
    [][/\ notified' # notified => ~StepsUnderConnectionLock
       /\ delivered' # delivered => queue_lock = NoThread]_vars

\* C26: every change of the connection status is made by a thread that holds
\* the connection lock, so the changes are ordered by the lock, and the
\* status observer has last been told the current status.
StatusChangesUnderLock ==
    [][status' # status =>
          /\ StepsUnderConnectionLock
          /\ notified'.last = status']_vars

\* ------------------------------------------------------ reconnect timers
\* The timers that are scheduled and have neither run nor been cancelled.
Outstanding == {i \in TimerIds : timers[i].st = "pending"}

\* C27: at most one reconnect timer is outstanding at any time.
OneTimerOutstanding == Cardinality(Outstanding) <= 1

\* C28: connect() cancels a pending reconnect timer before it proceeds: when
\* an accepted connect() of the caller has set the status Connecting, no
\* reconnect timer is outstanding.
ConnectCancelsTimer ==
    [][(Leaves(User, "connect") /\ pc'[User] = "connect_lib") =>
          Outstanding' = {}]_vars

\* ------------------------------------------------------ acknowledgments
\* _on_connect(rc = 0) returns in this step: it has called on_connected.
AckHandled ==
    \/ sess = "awaiting" /\ sess' = "open" /\ pc'[Net] = "idle"
    \/ pc[Net] = "flush" /\ pc'[Net] = "idle"


\* C29: when _on_connect has handled an accepted acknowledgment, the status
\* is Connected and the observer was told so, both attempt counters are 0,
\* the last error is cleared, no reconnect timer is outstanding, the pending
\* subscriptions have all been tried, and on_connected was called once.
AckHandledLeavesConnected ==
    [][AckHandled =>
          /\ status' = CONNECTED
          /\ notified'.last = CONNECTED
          /\ connection_attempts' = 0
          /\ reconnect_attempts' = 0
          /\ last_error' = None
          /\ reconnect_timer' = 0
          /\ Outstanding' = {}
          /\ flush' = <<>>
          /\ connected_calls' = 1]_vars


\* C30: a refused acknowledgment, and the connect-failure callback, set the
\* status Connection Failed, tell the observer and record a last error; the
\* network thread then schedules a reconnect when auto-reconnect is on and a
\* host is recorded: a new timer with the next backoff delay, the attempt
\* counted.
FailureSignalSchedulesReconnect ==
    [][/\ (pc[Net] = "idle" /\ pc'[Net] = "sched") =>
             /\ status' = CONNECTION_FAILED
             /\ notified'.last = CONNECTION_FAILED
             /\ last_error' # None
       /\ (pc[Net] = "sched" /\ pc'[Net] # "sched"
             /\ auto_reconnect /\ host # None) =>
             pc'[Net] = "sched_timer"
       /\ (pc[Net] = "sched_timer" /\ pc'[Net] # "sched_timer") =>
             /\ reconnect_timer' \in TimerIds
             /\ timers[reconnect_timer'].st = "free"
             /\ timers'[reconnect_timer'] =
                   [st |-> "pending",
                    interval |-> ReconnectDelay(reconnect_attempts)]
             /\ reconnect_attempts' = reconnect_attempts + 1]_vars

SecondBackoffAfterFailureSeen ==
    /\ pc[Net] = "idle"
    /\ status = CONNECTION_FAILED
    /\ last_error = "Failed to establish connection to MQTT broker"
    /\ reconnect_timer # 0
    /\ timers[reconnect_timer] = [st |-> "pending", interval |-> 2]

\* ---------------------------------------------------- disconnected signals
\* _on_disconnect(rc = 0) has run in this step: the library closes the
\* session on the caller's request and calls the handler, which leaves the
\* timer handle empty.
CleanSignal ==
    /\ pc[User] = "disc_close"
    /\ pc'[User] = "idle"
    /\ sess # "none"
    /\ result'[User] = "OK"
    /\ reconnect_timer' = 0

\* _on_disconnect(rc # 0) starts in this step: an open session dropped.
NonCleanSignal ==
    /\ sess = "open"
    /\ sess' = "none"
    /\ pc[Net] = "idle"
    /\ pc'[Net] = "sched"

\* C31: a clean disconnected signal sets the status Disconnected, leaves no
\* reconnect timer outstanding and schedules nothing; a non-clean one sets
\* the status Connection Lost, never Disconnected, and goes on to schedule a
\* reconnect: with auto-reconnect on and a host recorded a new timer is
\* pending when the handler returns.
DisconnectSignals ==
    [][/\ CleanSignal =>
             /\ status' = DISCONNECTED
             /\ Outstanding' = {}
             /\ reconnect_attempts' = reconnect_attempts
       /\ NonCleanSignal =>
             /\ status' = CONNECTION_LOST
             /\ notified'.last = CONNECTION_LOST
       /\ (pc[Net] = "sched" /\ pc'[Net] # "sched"
             /\ status = CONNECTION_LOST /\ auto_reconnect /\ host # None) =>
             pc'[Net] = "sched_timer"
       /\ (pc[Net] = "sched_timer" /\ pc'[Net] # "sched_timer") =>
             /\ reconnect_timer' \in Outstanding'
             /\ reconnect_timer' \notin Outstanding]_vars

\* --------------------------------------------------- pending and active
\* C32: in every reachable state no topic is both on the pending list and
\* in the active subscription map.
PendingActiveDisjoint ==
    \A topic \in Topics :
        ~(InList(pending_subscriptions, topic)
            /\ Listed(subscribed_topics, topic))

\* ------------------------------------------------------ stopping the worker
\* C33: after stop_processing has set the shutdown signal for a running
\* worker, the worker finishes at most the message in its hands, takes no
\* further one and ends by itself at its loop test (nothing ends it from
\* outside); stop_processing returns only when the worker has ended or the
\* timeout has passed; and while no worker is alive no message is handled or
\* delivered.  A worker that is scheduled does end.
StopLetsWorkerFinish ==
    /\ [][/\ (processing_thread /\ ~processing_thread') =>
                /\ shutdown_event
                /\ wpc = "wait"
                /\ wmsg = NoMessage
          /\ (shutdown_event /\ processing_thread /\ wpc = "wait") =>
                wpc' = "wait"
          /\ (shutdown_event /\ processing_thread) => shutdown_event'
          /\ \A c \in QueueCallers :
                (spc[c] = "join" /\ spc'[c] = "idle") =>
                    \/ ~processing_thread
                    \/ now >= join_until[c]
          /\ (~processing_thread /\ ~processing_thread') =>
                /\ wpc' = "wait"
                /\ UNCHANGED <<delivered, message_history, statVars>>]_vars
    /\ (shutdown_event /\ processing_thread) ~> ~processing_thread

\* stop_processing has returned on its timeout while the worker was still
\* handling a message with the signal set and another message queued.
StopTimedOutSeen ==
    /\ spc[1] = "idle"
    /\ shutdown_event
    /\ processing_thread
    /\ wpc = "notify"
    /\ join_until[1] # NoTime
    /\ now >= join_until[1]
    /\ incoming_queue # <<>>

\* ------------------------------------------------------ a single worker
\* The worker threads that are alive.
LiveWorkers == (IF processing_thread THEN 1 ELSE 0) + extra_workers

\* C34: at most one ingestion worker is alive at any time, however the
\* start_processing and stop_processing calls of different threads
\* interleave; a start_processing that finds a worker alive starts none.
SingleWorker == LiveWorkers <= 1

\* ------------------------------------------------ worker while Connected
\* C35: whenever the status is Connected the ingestion worker is alive and
\* its shutdown signal is clear, so what add_message accepts while Connected
\* gets processed.
ConnectedHasWorker ==
    status = CONNECTED => (processing_thread /\ ~shutdown_event)

\* ------------------------------------------------- overflow and the worker
\* C36: add_message drops the new message, returning False, only when the
\* queue is full at that moment; when the worker has taken messages since
\* the failed push, the new message is queued behind what is left and
\* nothing is evicted.
DropOnlyWhenFull ==
    [][EvictionEnds =>
          /\ aret' = "False" => Len(incoming_queue) = max_queue_size
          /\ Len(incoming_queue) < max_queue_size =>
                /\ incoming_queue' = Append(incoming_queue, amsg)
                /\ aret' = "True"]_vars

\* ---------------------------------------------------- counters together
\* The per-topic count, 0 for a topic without an entry.
TopicCount(stats, topic) == IF topic \in DOMAIN stats THEN stats[topic] ELSE 0

\* The worker writes the counters for the message in its hands in this step.
CountsMessage == wpc = "handle" /\ wpc' = "append"

\* C37: what get_statistics returns has a total equal to the sum of the
\* per-topic counts and an active topic count equal to the number of topics
\* counted at least once; handling a message raises the total and the count
\* of its topic by exactly 1 and leaves the other counts alone;
\* clear_statistics resets total and per-topic counts together; nothing
\* else changes them.
StatisticsConsistent ==
    [][/\ (Reads /\ snap'.op = "stats") =>
             LET v == snap'.data.val
             IN /\ v.total_messages
                     = SumCounts(v.topic_stats, DOMAIN v.topic_stats)
                /\ v.active_topics
                     = Cardinality({t \in MsgTopics :
                                       TopicCount(v.topic_stats, t) >= 1})
                /\ DOMAIN v.topic_stats \subseteq MsgTopics
       /\ CountsMessage =>
             /\ total_messages' = total_messages + 1
             /\ \A t \in MsgTopics :
                   TopicCount(topic_stats', t) =
                      TopicCount(topic_stats, t)
                         + (IF t = wmsg.topic THEN 1 ELSE 0)
       /\ ClearsStatistics =>
             /\ total_messages' = 0
             /\ \A t \in MsgTopics : TopicCount(topic_stats', t) = 0
       /\ (total_messages' # total_messages \/ topic_stats' # topic_stats) =>
             (CountsMessage \/ ClearsStatistics)]_vars

\* get_statistics has returned a total of 2 over two topics after a
\* clear_statistics that followed the first of three messages.
StatisticsAfterResetSeen ==
    /\ budget.sclears = 0
    /\ snap.op = "stats"
    /\ snap.data.val.total_messages = 2
    /\ snap.data.val.active_topics = 2
    /\ Len(delivered) = 3

\* ------------------------------------------------------ QoS of the flush
\* The flush subscribes the pending topic at the head of its copy in this
\* step and takes it off the pending list.
FlushSubscribes ==
    /\ pc[Net] = "flush"
    /\ flush' # flush
    /\ InList(pending_subscriptions, Head(flush))
    /\ ~InList(pending_subscriptions', Head(flush))

\* C38: a topic queued while not connected is recorded in the active map
\* with QoS 0 when the flush of the next accepted acknowledgment subscribes
\* it, whatever QoS the queued request asked for; queueing records no QoS.
PendingFlushedWithQoS0 ==
    [][/\ FlushSubscribes =>
             /\ Listed(subscribed_topics', Head(flush))
             /\ subscribed_topics'[Head(flush)] = 0
       /\ (Subscribes /\ status # CONNECTED) =>
             subscribed_topics' = subscribed_topics]_vars

\* A topic requested with QoS 1 while not connected was queued, then flushed:
\* it is active with QoS 0.
QueuedQoS1FlushedSeen ==
    /\ call = "subscribe"
    /\ asked.qos = 1
    /\ ret[User] = "True"
    /\ result[User] = "none"
    /\ status = CONNECTED
    /\ pc[Net] = "idle"
    /\ pending_subscriptions = <<>>
    /\ Listed(subscribed_topics, asked.topic)
    /\ subscribed_topics[asked.topic] = 0

\* ------------------------------------------- the active map across sessions
\* A step of disconnect(), of connect(), of a protocol callback's first part
\* (acknowledgment, refusal, drop, connect failure) or of the scheduling
\* that follows it.
SessionStep ==
    \/ call' = "disconnect" /\ pc'[User] # pc[User]
    \/ \E th \in Callers :
          /\ pc[th] \in {"connect", "connect_lib", "connect_start"}
          /\ pc'[th] # pc[th]
    \/ budget'.events # budget.events
    \/ pc[Net] \in {"sched", "sched_timer"} /\ pc'[Net] # pc[Net]

\* C39: disconnect(), the disconnected signals and a reconnect leave the
\* active subscription map as it is, so topics of an earlier session stay
\* listed while the status is not Connected; an entry leaves the map only in
\* an unsubscribe_from_topic that the library accepted while Connected.
ActiveMapSurvivesSessions ==
    [][/\ SessionStep => subscribed_topics' = subscribed_topics
       /\ \A topic \in Topics :
             (Listed(subscribed_topics, topic)
                /\ ~Listed(subscribed_topics', topic)) =>
                /\ Unsubscribes
                /\ status = CONNECTED
                /\ result'[User] = "OK"
                /\ ret'[User] = "True"]_vars

\* disconnect() has returned True and the topic subscribed with QoS 1 during
\* the session is still listed, the status Disconnected.
ListedAfterDisconnectSeen ==
    /\ call = "disconnect"
    /\ pc[User] = "idle"
    /\ ret[User] = "True"
    /\ status = DISCONNECTED
    /\ pending_subscriptions = <<>>
    /\ \E topic \in Topics :
          Listed(subscribed_topics, topic) /\ subscribed_topics[topic] = 1

\* ------------------------------------------------------- the rate window
\* The timestamps of a sequence of messages.
Stamps(msgs) == [i \in 1..Len(msgs) |-> msgs[i].timestamp]

\* The timestamps of h that are not older than cutoff.
NotOlder(h, cutoff) == SelectSeq(h, LAMBDA ts : ts >= cutoff)

\* C40: the rate window never holds more than rate_calculation_window (60)
\* timestamps; after each processed message it is the newest 60 of the
\* timestamps of the processed messages that are not older than 60 seconds
\* at the processing time, so it holds no older timestamp, and the rate is
\* computed from exactly these samples.
RateWindowBounded ==
    /\ [](Len(rate_history) <= rate_calculation_window)
    /\ [][CountsMessage =>
            /\ \A i \in 1..Len(rate_history') :
                  rate_history'[i] >= now - rate_calculation_window
            /\ rate_history' =
                  LastN(NotOlder(Stamps(delivered) \o <<wmsg.timestamp>>,
                                 now - rate_calculation_window),
                        rate_calculation_window)
            /\ messages_per_second' = MessageRate(rate_history', now)]_vars

\* More than 60 messages were processed inside the window and the window
\* holds 60 timestamps, the oldest of them one of the burst.
WindowFullSeen ==
    /\ wpc = "append"
    /\ Len(NotOlder(Stamps(delivered) \o <<wmsg.timestamp>>,
                    now - rate_calculation_window)) > rate_calculation_window
    /\ Len(rate_history) = rate_calculation_window
    /\ rate_history[1] = 0
    /\ rate_history[Len(rate_history)] = wmsg.timestamp
    /\ wmsg.timestamp > 0

====
